---- MODULE Spec2Model ----
(***************************************************************************)
(* Verification model of the Wildberries feedback auto-reply bot:          *)
(*   - the Dedup Store (internal/storage: sqlite and postgres backends),   *)
(*   - the Template Selector (internal/service/templates.go),              *)
(*   - the Processing Cycle (internal/service/cycle.go),                   *)
(*   - the per-tenant Scheduler (internal/scheduler/scheduler.go) and the  *)
(*     tenant registry of the Telegram front end (telegram bot),           *)
(*   - the vendor API client (internal/wbapi/client.go).                   *)
(*                                                                         *)
(* The specifications share the variables below:                           *)
(*   SpecStore  - callers invoking Exists/Save directly on a store         *)
(*   SpecSelect - the Template Selector applied to arbitrary ratings       *)
(*   Spec       - Processing Cycles running against store and vendor API   *)
(*   SpecBot    - registry, schedulers, run-now and delete handlers        *)
(*   SpecConfig - one tenant's input handlers sharing a config object      *)
(*   SpecSched  - one Scheduler: Run, ticker, Shutdown, cancellation       *)
(*   SpecClient - one rate-limited vendor client (internal/wbapi)          *)
(*   SpecTenant - one tenant's handlers and Run loops, with fairness       *)
(*   SpecLimiter - two goroutines calling one rate-limited client          *)
(*   SpecPool   - the update loop of Bot.Run and its handler slots         *)
(*   SpecEngine - service.New applied to arbitrary template texts          *)
(*   SpecCleanup - the per-user maps of the bot and performCleanup         *)
(*   SpecStop   - several goroutines calling Scheduler.Shutdown at once    *)
(*   SpecLocks  - the four mutexes of the bot and the functions using them *)
(*   SpecMarks  - one tenant's run-now/delete handlers and cycles' marks   *)
(***************************************************************************)
EXTENDS Integers, Sequences, FiniteSets, TLC

VARIABLES
    backend,      \* which Store implementation the process was started with
    processed,    \* table `processed`: number of rows per (user_id, id) key
    saved,        \* history: the (tenant, id) arguments of Save calls that returned nil
    caller,       \* SpecStore: per caller, what it observed and did last
    ops,          \* SpecStore: number of store calls made so far
    selIn,        \* SpecSelect: rating handed to Select
    selOut,       \* SpecSelect: text returned by Select ("" before the call)
    cyc,          \* Spec: per runner, the state of its HandleCycle invocation
    ctxDone,      \* Spec: the bot context (process shutdown) is cancelled
    started,      \* Spec: number of cycles started so far
    faults,       \* Spec: number of injected call failures so far
    okAnswers,    \* Spec: per (tenant, id), AnswerFeedback calls that returned nil
    storeErr,     \* Spec: per tenant, some Dedup Store call of it has failed
    overlapped,   \* Spec: per tenant, two of its cycles have run concurrently
    configDB,     \* SpecBot: table user_configs, one row per tenant or none
    userConfig,   \* SpecBot: b.userConfig, tenant -> config object (0: no entry)
    heap,         \* SpecBot: the *storage.UserConfig objects the map points to
    services,     \* SpecBot: b.services, tenant -> instance (0: no entry)
    schedulers,   \* SpecBot: b.schedulers, tenant -> instance (0: no entry)
    inst,         \* SpecBot: the Service/Scheduler pairs constructed so far
    manual,       \* SpecBot: the run-now goroutines spawned so far
    handler,      \* SpecBot: per handler goroutine, its kind, tenant and position
    handled,      \* SpecBot: number of handler invocations so far
    botCtxDone,   \* SpecBot: the root context is cancelled
    botStopped,   \* SpecBot: Bot.Shutdown has run
    sched,        \* SpecSched: one Scheduler, its Run goroutine and its callers
    cli,          \* SpecClient: one Client, its limiter and the call in progress
    lim,          \* SpecLimiter: one rate-limited Client called by two goroutines
    pool,         \* SpecPool: the update loop of Bot.Run and its handler slots
    eng,          \* SpecEngine: the arguments of one service.New call and its result
    chat,         \* SpecCleanup: the per-user maps of the bot and the users' activity
    stp,          \* SpecStop: one Scheduler and the goroutines calling Shutdown on it
    locks         \* SpecLocks: the four mutexes of the bot and the goroutines using them

storeVars  == <<backend, processed, saved>>
callerVars == <<caller, ops>>
selVars    == <<selIn, selOut>>
cycleVars  == <<cyc, ctxDone, started, faults, okAnswers, storeErr, overlapped>>

botVars    == <<configDB, userConfig, heap, services, schedulers, inst, manual, handler,
               handled, botCtxDone, botStopped>>

\* what the actions of each specification leave alone
notStore  == <<selVars, cycleVars, botVars, sched, cli, lim, pool, eng, chat, stp, locks>>
notSelect == <<storeVars, callerVars, cycleVars, botVars, sched, cli, lim, pool, eng, chat, stp, locks>>
notCycle  == <<callerVars, selVars, botVars, sched, cli, lim, pool, eng, chat, stp, locks>>
notBot    == <<backend, saved, callerVars, selVars, cycleVars, sched, cli, lim, pool, eng, chat, stp, locks>>
notSched  == <<storeVars, callerVars, selVars, cycleVars, botVars, cli, lim, pool, eng, chat, stp, locks>>
notClient == <<storeVars, callerVars, selVars, cycleVars, botVars, sched, lim, pool, eng, chat, stp, locks>>
notLimiter == <<storeVars, callerVars, selVars, cycleVars, botVars, sched, cli, pool, eng, chat, stp, locks>>
notPool   == <<storeVars, callerVars, selVars, cycleVars, botVars, sched, cli, lim, eng, chat, stp, locks>>
notEngine == <<storeVars, callerVars, selVars, cycleVars, botVars, sched, cli, lim, pool, chat, stp, locks>>
notCleanup == <<storeVars, callerVars, selVars, cycleVars, botVars, sched, cli, lim, pool, eng, stp, locks>>
notStop   == <<storeVars, callerVars, selVars, cycleVars, botVars, sched, cli, lim, pool, eng, chat, locks>>
notLocks  == <<storeVars, callerVars, selVars, cycleVars, botVars, sched, cli, lim, pool, eng, chat, stp>>

-----------------------------------------------------------------------------
(* Bounds of the model *)

MaxOps    == 4     \* SpecStore: store calls per behaviour
MaxRating == 60    \* SpecSelect: ratings range over -MaxRating..MaxRating
MaxFetch  == 2     \* Spec: longest list the vendor returns to one fetch
MaxCycles == 2     \* Spec: cycles started per behaviour
MaxFaults == 1     \* Spec: injected (non-cancellation) call failures
MaxInst     == 2   \* SpecBot: Service/Scheduler pairs constructed per behaviour
MaxManual   == 1   \* SpecBot: run-now goroutines spawned per behaviour
MaxHandlers == 3   \* SpecBot: handler invocations per behaviour
MaxTicks     == 3  \* SpecSched: ticks the ticker fires per behaviour
MaxShutdowns == 2  \* SpecSched: calls of Scheduler.Shutdown per behaviour
MaxCalls     == 3  \* SpecClient: API calls per behaviour
MaxBurst     == 2  \* SpecClient: burst size of the limiter
MaxLimCalls  == 4  \* SpecLimiter: API calls per behaviour
MaxRefill    == 3  \* SpecLimiter: tokens the limiter gains per behaviour
MaxDropped   == 2  \* SpecPool: updates dropped per behaviour

Tenants == {1, 2}                 \* chat IDs of the tenants
Ids     == {"id1", "id2"}         \* vendor-assigned review identifiers
NoUser  == 0                      \* user_id of rows that carry no tenant

-----------------------------------------------------------------------------
(* Dedup Store *)

Backends == {"sqlite", "postgres", "sqlite_legacy"}

\* Keys of the processed table.  The tenant-aware backends key a row by
\* (user_id, id); the legacy sqlite table has the single column id.
Keys == (Tenants \cup {NoUser}) \X Ids

EmptyTable == [k \in Keys |-> 0]

\* SELECT 1 FROM processed WHERE <key> LIMIT 1, then `exists == 1`
\* (sql.ErrNoRows is mapped to false).
SelectOne(table, key) == table[key] > 0

\* INSERT ... without conflict clause: a primary-key violation is an error.
InsertPlain(table, key) ==
    IF table[key] > 0
    THEN [table |-> table, err |-> "constraint"]
    ELSE [table |-> [table EXCEPT ![key] = 1], err |-> "nil"]

\* INSERT into a table that lost its primary key: every insert adds a row.
InsertNoKey(table, key) ==
    [table |-> [table EXCEPT ![key] = @ + 1], err |-> "nil"]

\* INSERT OR IGNORE / ON CONFLICT DO NOTHING on the primary key.
InsertOrIgnore(table, key) ==
    IF table[key] > 0
    THEN [table |-> table, err |-> "nil"]
    ELSE [table |-> [table EXCEPT ![key] = 1], err |-> "nil"]

\* The key a backend derives from the arguments of Exists / Save.
sqliteKey(userID, id)   == <<userID, id>>
postgresKey(userID, id) == <<userID, id>>
legacyKey(userID, id)   == <<NoUser, id>>

StoreKey(b, userID, id) ==
    CASE b = "sqlite"        -> sqliteKey(userID, id)
      [] b = "postgres"      -> postgresKey(userID, id)
      [] b = "sqlite_legacy" -> legacyKey(userID, id)

\* Store.Exists: (bool, error).  dbOK = FALSE is a failing database call
\* (I/O error, cancelled context): the query returns its error.
StoreExists(b, table, userID, id, dbOK) ==
    IF dbOK
    THEN [exists |-> SelectOne(table, StoreKey(b, userID, id)), err |-> "nil"]
    ELSE [exists |-> FALSE, err |-> "db"]

\* Store.Save: error, and the table after the statement.
StoreSave(b, table, userID, id, dbOK) ==
    IF dbOK
    THEN InsertOrIgnore(table, StoreKey(b, userID, id))
    ELSE [table |-> table, err |-> "db"]

-----------------------------------------------------------------------------
(* SpecStore: two callers using the Store interface directly *)

Callers == {"c1", "c2"}

NoCall == [op |-> "none", user |-> NoUser, id |-> "", exists |-> FALSE, err |-> "nil",
           dup |-> FALSE, changed |-> FALSE]

InitStoreVars(bs) ==
    /\ backend \in bs
    /\ processed = EmptyTable
    /\ saved = {}

\* caller[c].last      : the caller's latest call and what it returned; for a
\*                       Save, dup says that the key was stored before the
\*                       call and changed that the call altered the table
\* caller[c].sawAbsent : keys for which its latest Exists returned (false, nil)
\* caller[c].raced     : its Save calls on a key it had seen absent, with the
\*                       error returned (calls against a working database)
InitCallers ==
    /\ caller = [c \in Callers |-> [last |-> NoCall, sawAbsent |-> {}, raced |-> {}]]
    /\ ops = 0

\* caller c runs store.Exists(ctx, u, id)
CallExists(c, u, id, dbOK) ==
    /\ ops < MaxOps
    /\ LET r == StoreExists(backend, processed, u, id, dbOK)
       IN caller' = [caller EXCEPT
              ![c].last = [op |-> "Exists", user |-> u, id |-> id,
                           exists |-> r.exists, err |-> r.err,
                           dup |-> FALSE, changed |-> FALSE],
              ![c].sawAbsent = IF r.err = "nil" /\ ~r.exists
                               THEN @ \cup {<<u, id>>}
                               ELSE @ \ {<<u, id>>}]
    /\ ops' = ops + 1
    /\ UNCHANGED <<storeVars, notStore>>

\* caller c runs store.Save(ctx, u, id)
CallSave(c, u, id, dbOK) ==
    /\ ops < MaxOps
    /\ LET r == StoreSave(backend, processed, u, id, dbOK)
       IN /\ processed' = r.table
          /\ saved' = IF r.err = "nil" THEN saved \cup {<<u, id>>} ELSE saved
          /\ caller' = [caller EXCEPT
                 ![c].last = [op |-> "Save", user |-> u, id |-> id,
                              exists |-> FALSE, err |-> r.err,
                              dup |-> <<u, id>> \in saved,
                              changed |-> r.table /= processed],
                 ![c].sawAbsent = @ \ {<<u, id>>},
                 ![c].raced = IF dbOK /\ <<u, id>> \in caller[c].sawAbsent
                              THEN @ \cup {[key |-> <<u, id>>, err |-> r.err]}
                              ELSE @]
    /\ ops' = ops + 1
    /\ UNCHANGED <<backend, notStore>>

-----------------------------------------------------------------------------
(* Template Selector *)

\* Reply texts the tenants configure (TemplateGood / TemplateBad of UserConfig).
GoodText(u) == IF u = 1 THEN "Thanks!" ELSE "Great!"
BadText(u)  == IF u = 1 THEN "Sorry!" ELSE "Oops!"

\* strings.TrimSpace on the texts of the model.
TrimSpace(s) ==
    CASE s = " Thanks! " -> "Thanks!"
      [] s = "Sorry!\n"  -> "Sorry!"
      [] s = "   "       -> ""
      [] OTHER           -> s

\* A constructor that looks for empty texts before it trims them.
NewTemplateEngineUntrimmed(bad, good) ==
    IF bad = "" \/ good = ""
    THEN [panic |-> TRUE, bad |-> "", good |-> ""]
    ELSE [panic |-> FALSE, bad |-> TrimSpace(bad), good |-> TrimSpace(good)]

\* NewTemplateEngine: trims both texts; panics when one of them is empty.
NewTemplateEngine(bad, good) ==
    LET b == TrimSpace(bad)
        g == TrimSpace(good)
    IN IF b = "" \/ g = ""
       THEN [panic |-> TRUE, bad |-> "", good |-> ""]
       ELSE [panic |-> FALSE, bad |-> b, good |-> g]

\* A selector with the threshold one star too high.
SelectAbove4(t, rating) == IF rating > 4 THEN t.good ELSE t.bad

\* A selector with the two branches exchanged.
SelectSwapped(t, rating) == IF rating >= 4 THEN t.bad ELSE t.good

\* TemplateEngine.Select
Select(t, rating) == IF rating >= 4 THEN t.good ELSE t.bad

EngineOf(u) == NewTemplateEngine(BadText(u), GoodText(u))

(* SpecSelect: Select applied once to an arbitrary rating *)

Ratings == (0 - MaxRating) .. MaxRating

InitSelect ==
    /\ selIn \in [user : Tenants, rating : Ratings]
    /\ selOut = ""

\* the selector is not exercised on its own
IdleSelect ==
    /\ selIn = [user |-> 1, rating |-> 0]
    /\ selOut = ""

CallSelect ==
    /\ selOut = ""
    /\ selOut' = Select(EngineOf(selIn.user), selIn.rating)
    /\ UNCHANGED <<selIn, notSelect>>

-----------------------------------------------------------------------------
(* Vendor API client *)

\* What the vendor's server (or the network) does with one request: the
\* transport fails, or a status and a JSON envelope with its error flag
\* come back.
OkResponse       == [net |-> "ok", status |-> 200, error |-> FALSE]
EnvelopeError    == [net |-> "ok", status |-> 200, error |-> TRUE]
ServerError      == [net |-> "ok", status |-> 500, error |-> FALSE]
TransportFailure == [net |-> "fail", status |-> 0, error |-> FALSE]

Responses == {OkResponse, EnvelopeError, ServerError, TransportFailure}

\* A do that sends the request whatever the limiter's wait returned.
doUnlimited(waitErr, resp) ==
    IF resp.net = "fail" THEN [err |-> "transport", sent |-> TRUE, error |-> FALSE]
    ELSE IF resp.status >= 400 THEN [err |-> "http", sent |-> TRUE, error |-> FALSE]
    ELSE [err |-> "nil", sent |-> TRUE, error |-> resp.error]

\* Client.do (client.go:153-173): wait for the limiter, then send; the
\* result is the error, whether httpClient.Do was called, and the decoded
\* envelope's error flag.
do(waitErr, resp) ==
    IF waitErr /= "nil" THEN [err |-> waitErr, sent |-> FALSE, error |-> FALSE]
    ELSE IF resp.net = "fail" THEN [err |-> "transport", sent |-> TRUE, error |-> FALSE]
    ELSE IF resp.status >= 400 THEN [err |-> "http", sent |-> TRUE, error |-> FALSE]
    ELSE [err |-> "nil", sent |-> TRUE, error |-> resp.error]

\* A caller that trusts the HTTP status and never reads the envelope.
EnvelopeIgnored(r) == r.err

\* client.go:105-111 and 119-124: the envelope's error flag is an error
EnvelopeChecked(r) ==
    IF r.err /= "nil" THEN r.err
    ELSE IF r.error THEN "envelope" ELSE "nil"

\* Client.FetchUnanswered (client.go:96-112): the error it returns
FetchUnanswered(waitErr, resp) == EnvelopeChecked(do(waitErr, resp))

\* Client.AnswerFeedback (client.go:115-125): the error it returns
AnswerFeedback(waitErr, resp) == EnvelopeChecked(do(waitErr, resp))

\* rate.Limiter.Wait with a context that is already cancelled
WaitErr(kind, done) == IF kind = "bot" /\ done THEN "ctx" ELSE "nil"

-----------------------------------------------------------------------------
(* Processing Cycle *)

\* service.New: the page size is clamped to the vendor's maximum.
ClampTake(take) == IF take <= 0 \/ take > 5000 THEN 5000 ELSE take

New(userID, badTpl, goodTpl, take) ==
    [userID |-> userID, templates |-> NewTemplateEngine(badTpl, goodTpl),
     take |-> ClampTake(take)]

\* The service the bot builds for tenant u (initializeServiceForUser).
ServiceOf(u) == New(u, BadText(u), GoodText(u), 5000)

\* wbapi.Feedback, reduced to the fields the cycle reads.
Reviews == { [ID |-> "id1", ProductValuation |-> 5],
             [ID |-> "id2", ProductValuation |-> 2] }

\* What the vendor may return to one FetchUnanswered call.
FetchLists == UNION { [1..n -> Reviews] : n \in 0..MaxFetch }

\* The two goroutines that call HandleCycle: the scheduler's Run loop with
\* the bot context, and the run-now goroutine with context.Background().
Runners == {"sched", "manual"}
CtxOf(p) == IF p = "sched" THEN "bot" ELSE "background"

\* ctx.Err() != nil
CtxErr(kind, done) == kind = "bot" /\ done

IdleCycle ==
    [pc |-> "idle", userID |-> NoUser, ctx |-> "background", feedbacks |-> <<>>,
     i |-> 0, answered |-> 0, skipped |-> 0, failed |-> 0,
     mAnswered |-> 0, mSkipped |-> 0, mFailed |-> 0,
     log |-> <<>>, cancelBefore |-> 0, outcome |-> "none", fetchErr |-> "nil",
     fetches |-> 0, requests |-> 0]

Running(c) == c.pc \notin {"idle", "done"}

\* A fetch failure that is logged and then walks the list all the same.
OnFetchContinue(c, list, err) ==
    [c EXCEPT !.pc = "head", !.feedbacks = list, !.i = 1,
              !.answered = 0, !.skipped = 0, !.failed = 0]

\* A walk that begins at the last review of the list.
OnFetchLast(c, list, err) ==
    IF err /= "nil"
    THEN [c EXCEPT !.pc = "done", !.outcome = "fetch_failed"]
    ELSE [c EXCEPT !.pc = "head", !.feedbacks = list,
                   !.i = IF list = <<>> THEN 1 ELSE Len(list),
                   !.answered = 0, !.skipped = 0, !.failed = 0]

\* cycle.go:58-65: the result of FetchUnanswered
OnFetch(c, list, err) ==
    IF err /= "nil"
    THEN [c EXCEPT !.pc = "done", !.outcome = "fetch_failed"]
    ELSE [c EXCEPT !.pc = "head", !.feedbacks = list, !.i = 1,
                   !.answered = 0, !.skipped = 0, !.failed = 0]

\* A loop head that never looks at the context.
CancelledNever(c, done) == FALSE

\* cycle.go:68-73: select { case <-ctx.Done(): return; default: }
Cancelled(c, done) == CtxErr(c.ctx, done)

\* cycle.go:103-117: report skipped and failed, log the totals
Report(c) ==
    [c EXCEPT !.pc = "done", !.outcome = "complete",
              !.mSkipped = @ + c.skipped, !.mFailed = @ + c.failed]

\* cycle.go:67-73: the head of the range loop
OnLoopHead(c, done) ==
    IF c.i > Len(c.feedbacks) THEN Report(c)
    ELSE IF Cancelled(c, done)
         THEN [c EXCEPT !.pc = "done", !.outcome = "cancelled"]
         ELSE [c EXCEPT !.pc = "exists"]

\* An Exists result that is ignored: the review is answered in any case.
OnExistsIgnored(c, r) ==
    IF r.err /= "nil" THEN [c EXCEPT !.i = @ + 1, !.pc = "head"]
    ELSE [c EXCEPT !.pc = "answer"]

\* A marked review that is passed over without being counted.
OnExistsUncounted(c, r) ==
    IF r.err /= "nil" THEN [c EXCEPT !.i = @ + 1, !.pc = "head"]
    ELSE IF r.exists THEN [c EXCEPT !.i = @ + 1, !.pc = "head"]
    ELSE [c EXCEPT !.pc = "answer"]

\* A store error that is taken for "not marked": the review is answered.
OnExistsErrAnswered(c, r) ==
    IF r.err = "nil" /\ r.exists THEN [c EXCEPT !.skipped = @ + 1, !.i = @ + 1, !.pc = "head"]
    ELSE [c EXCEPT !.pc = "answer"]

\* A marked review that is counted as skipped and answered all the same.
OnExistsNoContinue(c, r) ==
    IF r.err /= "nil" THEN [c EXCEPT !.i = @ + 1, !.pc = "head"]
    ELSE IF r.exists THEN [c EXCEPT !.skipped = @ + 1, !.pc = "answer"]
    ELSE [c EXCEPT !.pc = "answer"]

\* cycle.go:75-84: the result of store.Exists
OnExists(c, r) ==
    IF r.err /= "nil" THEN [c EXCEPT !.i = @ + 1, !.pc = "head"]
    ELSE IF r.exists THEN [c EXCEPT !.skipped = @ + 1, !.i = @ + 1, !.pc = "head"]
    ELSE [c EXCEPT !.pc = "answer"]

\* An answer failure that ends the loop instead of continuing.
OnAnswerAbort(c, err) ==
    IF err /= "nil"
    THEN [c EXCEPT !.failed = @ + 1, !.i = Len(c.feedbacks) + 1, !.pc = "head"]
    ELSE [c EXCEPT !.pc = "save"]

\* A failed submission that is counted and then marked all the same.
OnAnswerSaveAnyway(c, err) ==
    IF err /= "nil"
    THEN [c EXCEPT !.failed = @ + 1, !.pc = "save"]
    ELSE [c EXCEPT !.pc = "save"]

\* A failed submission that is tried again at once.
OnAnswerRetry(c, err) ==
    IF err /= "nil"
    THEN [c EXCEPT !.failed = @ + 1, !.pc = "answer"]
    ELSE [c EXCEPT !.pc = "save"]

\* cycle.go:87-92: the result of AnswerFeedback
OnAnswer(c, err) ==
    IF err /= "nil"
    THEN [c EXCEPT !.failed = @ + 1, !.i = @ + 1, !.pc = "head"]
    ELSE [c EXCEPT !.pc = "save"]

\* cycle.go:94-100: the result of store.Save
OnSave(c, err) ==
    IF err /= "nil"
    THEN [c EXCEPT !.i = @ + 1, !.pc = "head"]
    ELSE [c EXCEPT !.answered = @ + 1, !.mAnswered = @ + 1,
                   !.i = @ + 1, !.pc = "head"]

\* The reply text of a review the cycle answers (cycle.go:86).
TextFor(svc, fb) == Select(svc.templates, fb.ProductValuation)

Logged(c, e) == [c EXCEPT !.log = Append(@, e)]

\* client.go:157: the request that Client.do handed to httpClient.Do, if any
Requested(c, r) == [c EXCEPT !.requests = IF r.sent THEN @ + 1 ELSE @]

InitCycles ==
    /\ cyc = [p \in Runners |-> IdleCycle]
    /\ ctxDone = FALSE
    /\ started = 0
    /\ faults = 0
    /\ okAnswers = [k \in Tenants \X Ids |-> 0]
    /\ storeErr = [u \in Tenants |-> FALSE]
    /\ overlapped = [u \in Tenants |-> FALSE]

\* An injected failure of one call: allowed while the budget lasts.
Inject(ok) ==
    /\ ok \/ faults < MaxFaults
    /\ faults' = IF ok THEN faults ELSE faults + 1

\* runner p enters HandleCycle of tenant u's service
StartCycle(p, u) ==
    /\ ~Running(cyc[p])
    /\ started < MaxCycles
    /\ p = "sched" => ~ctxDone
    /\ cyc' = [cyc EXCEPT ![p] =
                  [IdleCycle EXCEPT !.pc = "fetch", !.userID = u, !.ctx = CtxOf(p)]]
    /\ started' = started + 1
    /\ overlapped' = [overlapped EXCEPT ![u] =
                         @ \/ \E q \in Runners \ {p} :
                                 Running(cyc[q]) /\ cyc[q].userID = u]
    /\ UNCHANGED <<storeVars, ctxDone, faults, okAnswers, storeErr, notCycle>>

\* cycle.go:58: s.client.FetchUnanswered(ctx, s.take, 0)
Fetch(p, resp, list) ==
    /\ cyc[p].pc = "fetch"
    /\ Inject(resp = OkResponse)
    /\ LET err == FetchUnanswered(WaitErr(cyc[p].ctx, ctxDone), resp)
           r   == do(WaitErr(cyc[p].ctx, ctxDone), resp)
       IN cyc' = [cyc EXCEPT ![p] =
                     OnFetch(Requested([@ EXCEPT !.fetchErr = err, !.fetches = @ + 1], r),
                             list, err)]
    /\ UNCHANGED <<storeVars, ctxDone, started, okAnswers, storeErr, overlapped, notCycle>>

\* cycle.go:67-73 and 103-117
LoopHead(p) ==
    /\ cyc[p].pc = "head"
    /\ cyc' = [cyc EXCEPT ![p] = OnLoopHead(@, ctxDone)]
    /\ UNCHANGED <<storeVars, ctxDone, started, faults, okAnswers, storeErr,
                   overlapped, notCycle>>

\* cycle.go:75: s.store.Exists(ctx, s.userID, fb.ID)
Exists(p, ok) ==
    /\ cyc[p].pc = "exists"
    /\ Inject(ok)
    /\ LET c  == cyc[p]
           fb == c.feedbacks[c.i]
           r  == StoreExists(backend, processed, c.userID, fb.ID,
                             ok /\ ~CtxErr(c.ctx, ctxDone))
       IN /\ cyc' = [cyc EXCEPT ![p] =
                        OnExists(Logged(c, [op |-> "Exists", k |-> c.i, id |-> fb.ID,
                                            text |-> "", exists |-> r.exists,
                                            err |-> r.err]), r)]
          /\ storeErr' = [storeErr EXCEPT ![c.userID] = @ \/ r.err /= "nil"]
    /\ UNCHANGED <<storeVars, ctxDone, started, okAnswers, overlapped, notCycle>>

\* cycle.go:86-87: s.client.AnswerFeedback(ctx, fb.ID, tpl)
Answer(p, resp) ==
    /\ cyc[p].pc = "answer"
    /\ Inject(resp = OkResponse)
    /\ LET c   == cyc[p]
           fb  == c.feedbacks[c.i]
           tpl == TextFor(ServiceOf(c.userID), fb)
           err == AnswerFeedback(WaitErr(c.ctx, ctxDone), resp)
           r   == do(WaitErr(c.ctx, ctxDone), resp)
       IN /\ cyc' = [cyc EXCEPT ![p] =
                        OnAnswer(Requested(Logged(c, [op |-> "AnswerFeedback", k |-> c.i,
                                                      id |-> fb.ID, text |-> tpl,
                                                      exists |-> FALSE, err |-> err]), r),
                                 err)]
          /\ okAnswers' = IF err = "nil"
                          THEN [okAnswers EXCEPT ![<<c.userID, fb.ID>>] = @ + 1]
                          ELSE okAnswers
    /\ UNCHANGED <<storeVars, ctxDone, started, storeErr, overlapped, notCycle>>

\* cycle.go:94: s.store.Save(ctx, s.userID, fb.ID)
Save(p, ok) ==
    /\ cyc[p].pc = "save"
    /\ Inject(ok)
    /\ LET c  == cyc[p]
           fb == c.feedbacks[c.i]
           r  == StoreSave(backend, processed, c.userID, fb.ID,
                           ok /\ ~CtxErr(c.ctx, ctxDone))
       IN /\ processed' = r.table
          /\ saved' = IF r.err = "nil" THEN saved \cup {<<c.userID, fb.ID>>} ELSE saved
          /\ cyc' = [cyc EXCEPT ![p] =
                        OnSave(Logged(c, [op |-> "Save", k |-> c.i, id |-> fb.ID,
                                          text |-> "", exists |-> FALSE,
                                          err |-> r.err]), r.err)]
          /\ storeErr' = [storeErr EXCEPT ![c.userID] = @ \/ r.err /= "nil"]
    /\ UNCHANGED <<backend, ctxDone, started, okAnswers, overlapped, notCycle>>

\* The first review a running cycle has not begun when the context is
\* cancelled: the one at the loop head, else the one after the current.
NextUnbegun(c) ==
    CASE c.pc = "fetch" -> 1
      [] c.pc = "head"  -> c.i
      [] OTHER          -> c.i + 1

\* main.go:61: SIGINT/SIGTERM cancels the root context
Cancel ==
    /\ ~ctxDone
    /\ ctxDone' = TRUE
    /\ cyc' = [p \in Runners |->
                 IF Running(cyc[p]) /\ cyc[p].ctx = "bot"
                 THEN [cyc[p] EXCEPT !.cancelBefore = NextUnbegun(cyc[p])]
                 ELSE cyc[p]]
    /\ UNCHANGED <<storeVars, started, faults, okAnswers, storeErr, overlapped, notCycle>>

-----------------------------------------------------------------------------
(* Telegram front end: tenant registry, handlers, schedulers *)

DefaultTpl == "default reply"      \* the placeholder "Спасибо за ваш отзыв!"
TokenInput == "tokenA"             \* a token that passes the format checks
GoodInput  == "good reply"         \* template texts that pass the length checks
BadInput   == "bad reply"

\* *storage.UserConfig; nil |-> TRUE is the nil pointer / the missing row
NilConfig == [nil |-> TRUE, WBToken |-> "", TemplateGood |-> "", TemplateBad |-> ""]
EmptyConfig == [nil |-> FALSE, WBToken |-> "", TemplateGood |-> "", TemplateBad |-> ""]

\* part_002:1229-1231, 1321-1323, 1438-1440 (allFieldsSet) and 1701-1703
AllFieldsSet(cfg) ==
    /\ cfg.WBToken /= "" /\ cfg.WBToken /= "not_set"
    /\ cfg.TemplateGood /= "" /\ cfg.TemplateGood /= DefaultTpl
    /\ cfg.TemplateBad /= "" /\ cfg.TemplateBad /= DefaultTpl

OrDefault(v, d) == IF v = "" THEN d ELSE v

\* The config an input handler builds: the in-memory config (or a fresh
\* one), the fields of the stored row merged in, the new value set, and the
\* empty fields replaced by their placeholders for the database.
\* handleTokenInput 1188-1226, handleTemplateGoodInput 1280-1318,
\* handleTemplateBadInput 1392-1435.
\* the object after the merge and the assignment of the new value, as it
\* is when SaveUserConfig is called
InputMerged(field, mem, existing, value) ==
    LET cfg == IF mem.nil THEN EmptyConfig ELSE mem
    IN CASE field = "token" ->
              LET m == IF existing.nil THEN cfg
                       ELSE [cfg EXCEPT !.TemplateGood = existing.TemplateGood,
                                        !.TemplateBad = existing.TemplateBad]
              IN [m EXCEPT !.WBToken = value]
         [] field = "good" ->
              LET m == IF existing.nil THEN cfg
                       ELSE [cfg EXCEPT !.WBToken = existing.WBToken,
                                        !.TemplateBad = existing.TemplateBad]
              IN [m EXCEPT !.TemplateGood = value]
         [] field = "bad" ->
              LET m == IF existing.nil THEN cfg
                       ELSE [cfg EXCEPT !.WBToken = existing.WBToken,
                                        !.TemplateGood = existing.TemplateGood]
              IN [m EXCEPT !.TemplateBad = value]

\* the values written to the database and then back into the object
InputConfig(field, mem, existing, value) ==
    LET m == InputMerged(field, mem, existing, value)
    IN CASE field = "token" ->
              [m EXCEPT !.TemplateGood = OrDefault(@, DefaultTpl),
                        !.TemplateBad = OrDefault(@, DefaultTpl)]
         [] field = "good" ->
              [m EXCEPT !.WBToken = OrDefault(@, "not_set"),
                        !.TemplateBad = OrDefault(@, DefaultTpl)]
         [] field = "bad" ->
              [m EXCEPT !.WBToken = OrDefault(@, "not_set"),
                        !.TemplateGood = OrDefault(@, DefaultTpl)]

InputValue(field) ==
    CASE field = "token" -> TokenInput
      [] field = "good"  -> GoodInput
      [] field = "bad"   -> BadInput

Handlers == {"h1", "h2"}

\* the UserConfig objects input handlers share through b.userConfig: a
\* running handler holds at most one, so there are as many as handlers
Objects == {1, 2}

\* cfg is the handler's own copy read from the database (run-now), ref the
\* pointer it got from or put into b.userConfig (input handlers)
IdleHandler == [kind |-> "none", pc |-> "idle", chatID |-> NoUser, field |-> "",
                value |-> "", cfg |-> NilConfig, ref |-> 0, svc |-> 0,
                initCalled |-> FALSE, initSaw |-> FALSE, initMade |-> 0]

\* the objects reachable from the handlers hs and the map uc
Referenced(hs, uc) ==
    {hs[h].ref : h \in Handlers} \cup {uc[t] : t \in Tenants}

\* &storage.UserConfig{UserID: chatID}: an object nobody points to yet
FreshObject == CHOOSE o \in Objects :
                  /\ o \notin Referenced(handler, userConfig)
                  /\ \A q \in Objects : q \notin Referenced(handler, userConfig) => o <= q

\* objects that nothing points to any more are gone
Collected(hp, hs, uc) ==
    [o \in Objects |-> IF o \in Referenced(hs, uc) THEN hp[o] ELSE NilConfig]

\* a handler returns: its locals are gone, what it did to the registry stays
Return(r) == [r EXCEPT !.pc = "idle", !.field = "", !.value = "", !.cfg = NilConfig,
                          !.ref = 0, !.svc = 0]

\* A Service/Scheduler pair as initializeServiceForUser constructs it:
\* the config the service captured, the scheduler's stop channel and the
\* position of its Run goroutine.
NewInst(chatID, cfg) ==
    [userID |-> chatID, cfg |-> cfg, stopped |-> FALSE, pc |-> "start"]

\* A registry check that never finds the tenant.
ServiceMissing(svcs, chatID) == FALSE

\* part_002:1504: if _, exists := b.services[chatID]; exists
ServiceExists(svcs, chatID) == svcs[chatID] /= 0

\* A Shutdown that closes stopCh without looking: closing a closed channel
\* panics.
ShutdownUnguarded(s) == [s EXCEPT !.stopped = TRUE, !.panicked = s.stopped]

\* A Shutdown that leaves stopCh open.
ShutdownNoSignal(s) == s

\* scheduler.go:68-77: Shutdown closes stopCh unless it is closed already
Shutdown(s) == IF s.stopped THEN s ELSE [s EXCEPT !.stopped = TRUE]

\* scheduler.go:52 and 62: s.fn(ctx) is called
Invoke(s) == [s EXCEPT !.pc = "cycle"]

\* s.fn(ctx) returns and Run is at its select
FnReturn(s) == [s EXCEPT !.pc = "select"]

\* scheduler.go:55-62: the cases of the select that can proceed
ReadyCases(s, done, tick) ==
    {c \in {"ctx", "stop", "tick"} :
        \/ c = "ctx" /\ done
        \/ c = "stop" /\ s.stopped
        \/ c = "tick" /\ tick}

\* A loop that leaves on its first tick.
SelectedOnce(s, case) == [s EXCEPT !.pc = "exited"]

\* A loop that treats the stop signal as one more tick.
SelectedStopIgnored(s, case) ==
    IF case = "ctx" THEN [s EXCEPT !.pc = "exited"] ELSE Invoke(s)

\* scheduler.go:55-63: the chosen case is run
Selected(s, case) ==
    IF case = "tick" THEN Invoke(s) ELSE [s EXCEPT !.pc = "exited"]

\* the cycles executing for tenant t: scheduler invocations and run-now ones
SchedCycles(t)  == {n \in 1..Len(inst) : inst[n].userID = t /\ inst[n].pc = "cycle"}
ManualCycles(t) == {m \in 1..Len(manual) : manual[m].userID = t /\ manual[m].pc = "cycle"}
CyclesRunning(t) == Cardinality(SchedCycles(t)) + Cardinality(ManualCycles(t))

\* the schedulers of tenant t that were started and not told to stop
LiveScheds(t) == {n \in 1..Len(inst) : inst[n].userID = t /\ ~inst[n].stopped}

\* a row of user_configs left by an earlier run of the process
StoredConfig == [nil |-> FALSE, WBToken |-> TokenInput, TemplateGood |-> GoodInput,
                 TemplateBad |-> BadInput]

\* New (part_002:105-170) makes the maps empty; the database is what earlier
\* runs left in it
InitBotVars(rows) ==
    /\ configDB \in [Tenants -> rows]
    /\ userConfig = [t \in Tenants |-> 0]
    /\ heap = [o \in Objects |-> NilConfig]
    /\ services = [t \in Tenants |-> 0]
    /\ schedulers = [t \in Tenants |-> 0]
    /\ inst = <<>>
    /\ manual = <<>>
    /\ handler = [h \in Handlers |-> IdleHandler]
    /\ handled = 0
    /\ botCtxDone = FALSE
    /\ botStopped = FALSE

\* Bot.Run 221-268: an update is dispatched to a handler goroutine
StartHandler(h, kind, t, field, value) ==
    /\ handler[h].pc = "idle"
    /\ handled < MaxHandlers
    /\ ~botCtxDone
    /\ kind = "input" <=> field /= ""
    /\ handler' = [handler EXCEPT ![h] =
                      [IdleHandler EXCEPT !.kind = kind, !.chatID = t, !.field = field,
                                          !.value = value,
                                          !.pc = CASE kind = "input"   -> "save"
                                                   [] kind = "run_now" -> "load"
                                                   [] kind = "delete"  -> "delete"]]
    /\ handled' = handled + 1
    /\ UNCHANGED <<configDB, userConfig, heap, services, schedulers, inst, manual,
                   botCtxDone, botStopped, processed, notBot>>

\* handleTokenInput / handleTemplateGoodInput / handleTemplateBadInput up to
\* the update of the in-memory config: load, merge, SaveUserConfig
InputSave(h, ok) ==
    /\ handler[h].pc = "save"
    /\ LET t   == handler[h].chatID
           ref == IF userConfig[t] /= 0 THEN userConfig[t] ELSE FreshObject
           mem == IF userConfig[t] /= 0 THEN heap[userConfig[t]] ELSE NilConfig
           cfg == InputConfig(handler[h].field, mem, configDB[t], handler[h].value)
           obj == InputMerged(handler[h].field, mem, configDB[t], handler[h].value)
       IN IF ok
          THEN /\ configDB' = [configDB EXCEPT ![t] = cfg]
               /\ userConfig' = [userConfig EXCEPT ![t] = ref]
               /\ heap' = [heap EXCEPT ![ref] = cfg]
               /\ handler' = [handler EXCEPT ![h].ref = ref,
                                 ![h].pc = IF AllFieldsSet(cfg) THEN "init" ELSE "reset"]
          ELSE /\ userConfig' = [userConfig EXCEPT ![t] = 0]
               /\ handler' = [handler EXCEPT ![h] = Return(@)]
               /\ heap' = Collected([heap EXCEPT ![ref] = obj], handler', userConfig')
               /\ UNCHANGED configDB
    /\ UNCHANGED <<services, schedulers, inst, manual, handled, botCtxDone,
                   botStopped, processed, notBot>>

\* initializeServiceForUser 1492-1547, run with svcMu held from the check to
\* the registration of the scheduler and the start of its Run goroutine
InitializeServiceForUser(h, cfg, next) ==
    LET t == handler[h].chatID
    IN IF ServiceExists(services, t)
       THEN /\ handler' = [handler EXCEPT ![h].pc = next, ![h].initCalled = TRUE,
                                          ![h].initSaw = TRUE]
            /\ UNCHANGED <<services, schedulers, inst>>
       ELSE /\ Len(inst) < MaxInst
            /\ inst' = Append(inst, NewInst(t, cfg))
            /\ services' = [services EXCEPT ![t] = Len(inst) + 1]
            /\ schedulers' = [schedulers EXCEPT ![t] = Len(inst) + 1]
            /\ handler' = [handler EXCEPT ![h].pc = next, ![h].initCalled = TRUE,
                                          ![h].initMade = Len(inst) + 1]

\* part_002:1233-1234, 1325-1326, 1444-1446
InputInit(h) ==
    /\ handler[h].pc = "init"
    /\ handler[h].kind = "input"
    /\ InitializeServiceForUser(h, heap[handler[h].ref], "reset")
    /\ UNCHANGED <<configDB, userConfig, heap, manual, handled, botCtxDone, botStopped,
                   processed, notBot>>

\* resetUserState 1807-1812, the last statement of the input and delete handlers
HandlerReset(h) ==
    /\ handler[h].pc = "reset"
    /\ userConfig' = [userConfig EXCEPT ![handler[h].chatID] = 0]
    /\ handler' = [handler EXCEPT ![h] = Return(@)]
    /\ heap' = Collected(heap, handler', userConfig')
    /\ UNCHANGED <<configDB, services, schedulers, inst, manual, handled,
                   botCtxDone, botStopped, processed, notBot>>

\* handleRunNowButton 1669-1719: GetUserConfig and the configuration checks
RunNowLoad(h, ok) ==
    /\ handler[h].pc = "load"
    /\ LET cfg == IF ok THEN configDB[handler[h].chatID] ELSE NilConfig
       IN handler' = [handler EXCEPT ![h] =
                         IF cfg.nil \/ ~AllFieldsSet(cfg) THEN Return(@)
                         ELSE [@ EXCEPT !.cfg = cfg, !.pc = "get"]]
    /\ UNCHANGED <<configDB, userConfig, heap, services, schedulers, inst, manual, handled,
                   botCtxDone, botStopped, processed, notBot>>

\* handleRunNowButton 1722-1723: svc := b.getServiceForUser(chatID)
RunNowGet(h) ==
    /\ handler[h].pc = "get"
    /\ LET svc == services[handler[h].chatID]
       IN handler' = [handler EXCEPT ![h].svc = svc,
                         ![h].pc = IF svc = 0 THEN "init" ELSE "spawn"]
    /\ UNCHANGED <<configDB, userConfig, heap, services, schedulers, inst, manual, handled,
                   botCtxDone, botStopped, processed, notBot>>

\* handleRunNowButton 1724
RunNowInit(h) ==
    /\ handler[h].pc = "init"
    /\ handler[h].kind = "run_now"
    /\ InitializeServiceForUser(h, handler[h].cfg, "get2")
    /\ UNCHANGED <<configDB, userConfig, heap, manual, handled, botCtxDone, botStopped,
                   processed, notBot>>

\* handleRunNowButton 1725-1734: the second lookup; nil ends the handler
RunNowGet2(h) ==
    /\ handler[h].pc = "get2"
    /\ LET svc == services[handler[h].chatID]
       IN handler' = [handler EXCEPT ![h] =
                         IF svc = 0 THEN Return(@)
                         ELSE [@ EXCEPT !.svc = svc, !.pc = "spawn"]]
    /\ UNCHANGED <<configDB, userConfig, heap, services, schedulers, inst, manual, handled,
                   botCtxDone, botStopped, processed, notBot>>

\* handleRunNowButton 1748-1762: go func() { svc.HandleCycle(context.Background()) }
RunNowSpawn(h) ==
    /\ handler[h].pc = "spawn"
    /\ Len(manual) < MaxManual
    /\ manual' = Append(manual, [userID |-> handler[h].chatID, svc |-> handler[h].svc,
                                 pc |-> "cycle"])
    /\ handler' = [handler EXCEPT ![h] = Return(@)]
    /\ UNCHANGED <<configDB, userConfig, heap, services, schedulers, inst, handled,
                   botCtxDone, botStopped, processed, notBot>>

\* the run-now goroutine's HandleCycle returns
ManualEnd(m) ==
    /\ m \in 1..Len(manual)
    /\ manual[m].pc = "cycle"
    /\ manual' = [manual EXCEPT ![m].pc = "done"]
    /\ UNCHANGED <<configDB, userConfig, heap, services, schedulers, inst, handler, handled,
                   botCtxDone, botStopped, processed, notBot>>

\* DELETE FROM processed WHERE user_id = ?
DeleteProcessed(table, t) == [k \in Keys |-> IF k[1] = t THEN 0 ELSE table[k]]

\* handleConfirmDelete 1111-1118: DeleteUserConfig removes the tenant's marks
\* and its config row; sqlite runs the two statements without a transaction,
\* so the second may fail after the first took effect.
DeleteConfig(h, res) ==
    /\ handler[h].pc = "delete"
    /\ LET t == handler[h].chatID
       IN /\ processed' = IF res \in {"ok", "err_config"}
                          THEN DeleteProcessed(processed, t) ELSE processed
          /\ configDB' = IF res = "ok" THEN [configDB EXCEPT ![t] = NilConfig]
                         ELSE configDB
          /\ handler' = [handler EXCEPT ![h] =
                            IF res = "ok" THEN [@ EXCEPT !.pc = "shutdown"] ELSE Return(@)]
    /\ UNCHANGED <<userConfig, heap, services, schedulers, inst, manual, handled,
                   botCtxDone, botStopped, notBot>>

\* A shutdownUserService that forgets the service registry.
ShutdownUserServiceKeepsService(h) ==
    /\ handler[h].pc = "shutdown"
    /\ LET t == handler[h].chatID
           n == schedulers[t]
       IN /\ inst' = IF n /= 0 THEN [inst EXCEPT ![n] = Shutdown(@)] ELSE inst
          /\ schedulers' = [schedulers EXCEPT ![t] = 0]
          /\ services' = services
    /\ handler' = [handler EXCEPT ![h].pc = "reset"]
    /\ UNCHANGED <<configDB, userConfig, heap, manual, handled, botCtxDone, botStopped,
                   processed, notBot>>

\* shutdownUserService 1555-1568
ShutdownUserService(h) ==
    /\ handler[h].pc = "shutdown"
    /\ LET t == handler[h].chatID
           n == schedulers[t]
       IN /\ inst' = IF n /= 0 THEN [inst EXCEPT ![n] = Shutdown(@)] ELSE inst
          /\ schedulers' = [schedulers EXCEPT ![t] = 0]
          /\ services' = [services EXCEPT ![t] = 0]
    /\ handler' = [handler EXCEPT ![h].pc = "reset"]
    /\ UNCHANGED <<configDB, userConfig, heap, manual, handled, botCtxDone, botStopped,
                   processed, notBot>>

\* scheduler.go:45-51: Run starts and makes its immediate call of fn
SchedRunStart(n) ==
    /\ n \in 1..Len(inst)
    /\ inst[n].pc = "start"
    /\ inst' = [inst EXCEPT ![n] = Invoke(@)]
    /\ UNCHANGED <<configDB, userConfig, heap, services, schedulers, manual, handler,
                   handled, botCtxDone, botStopped, processed, notBot>>

\* fn returns: HandleCycle is over and Run goes (back) to its select
SchedCycleEnd(n) ==
    /\ n \in 1..Len(inst)
    /\ inst[n].pc = "cycle"
    /\ inst' = [inst EXCEPT ![n] = FnReturn(@)]
    /\ UNCHANGED <<configDB, userConfig, heap, services, schedulers, manual, handler,
                   handled, botCtxDone, botStopped, processed, notBot>>

\* scheduler.go:54-65: the select of the Run loop takes one of its ready
\* cases; the ticker's channel becomes ready when the interval has passed
SchedSelect(n, case) ==
    /\ n \in 1..Len(inst)
    /\ inst[n].pc = "select"
    /\ case \in ReadyCases(inst[n], botCtxDone, TRUE)
    /\ inst' = [inst EXCEPT ![n] = Selected(@, case)]
    /\ UNCHANGED <<configDB, userConfig, heap, services, schedulers, manual, handler,
                   handled, botCtxDone, botStopped, processed, notBot>>

\* main.go:61,100: SIGINT/SIGTERM cancels the root context
CancelBot ==
    /\ ~botCtxDone
    /\ botCtxDone' = TRUE
    /\ UNCHANGED <<configDB, userConfig, heap, services, schedulers, inst, manual, handler,
                   handled, botStopped, processed, notBot>>

\* Bot.Shutdown 1646-1667, called by main after the context is cancelled
BotShutdown ==
    /\ botCtxDone
    /\ ~botStopped
    /\ inst' = [n \in 1..Len(inst) |->
                   IF \E t \in Tenants : schedulers[t] = n THEN Shutdown(inst[n])
                   ELSE inst[n]]
    /\ schedulers' = [t \in Tenants |-> 0]
    /\ services' = [t \in Tenants |-> 0]
    /\ botStopped' = TRUE
    /\ UNCHANGED <<configDB, userConfig, heap, manual, handler, handled, botCtxDone,
                   processed, notBot>>

NextBot ==
    \/ \E h \in Handlers, t \in Tenants, f \in {"token", "good", "bad"} :
          StartHandler(h, "input", t, f, InputValue(f))
    \/ \E h \in Handlers, t \in Tenants : StartHandler(h, "run_now", t, "", "")
    \/ \E h \in Handlers, t \in Tenants : StartHandler(h, "delete", t, "", "")
    \/ \E h \in Handlers, ok \in BOOLEAN : InputSave(h, ok)
    \/ \E h \in Handlers : InputInit(h)
    \/ \E h \in Handlers : HandlerReset(h)
    \/ \E h \in Handlers, ok \in BOOLEAN : RunNowLoad(h, ok)
    \/ \E h \in Handlers : RunNowGet(h)
    \/ \E h \in Handlers : RunNowInit(h)
    \/ \E h \in Handlers : RunNowGet2(h)
    \/ \E h \in Handlers : RunNowSpawn(h)
    \/ \E m \in 1..MaxManual : ManualEnd(m)
    \/ \E h \in Handlers, res \in {"ok", "err_processed", "err_config"} : DeleteConfig(h, res)
    \/ \E h \in Handlers : ShutdownUserService(h)
    \/ \E n \in 1..MaxInst : SchedRunStart(n)
    \/ \E n \in 1..MaxInst : SchedCycleEnd(n)
    \/ \E n \in 1..MaxInst, case \in {"ctx", "stop", "tick"} : SchedSelect(n, case)
    \/ CancelBot
    \/ BotShutdown

-----------------------------------------------------------------------------
(* SpecSched: one Scheduler, the goroutine in Run, callers of Shutdown *)

\* scheduler.New (scheduler.go:28-41) and the goroutine that is about to call
\* Run; the other fields record what has happened: ticks in ticker.C (its
\* buffer holds one), the context, ticks fired and received, invocations of
\* fn begun, running, and begun after Shutdown had been called; ticks that
\* found the buffer full, ticks fired during the invocation in progress and
\* the most that fired during one invocation.
NewSched ==
    [pc |-> "start", stopped |-> FALSE, panicked |-> FALSE, tickCh |-> 0,
     ctxDone |-> FALSE, fired |-> 0, received |-> 0, calls |-> 0, running |-> 0,
     shutdowns |-> 0, changedLater |-> FALSE, lateCalls |-> 0,
     dropped |-> 0, inCall |-> 0, maxInCall |-> 0]

\* time.NewTicker makes its channel with room for one tick
TickBuffer == 1

\* A ticker whose channel queues every tick.
TickerSendQueued(ch) == ch + 1

\* the ticker's non-blocking send: a tick that finds the buffer full is dropped
TickerSend(ch) == IF ch < TickBuffer THEN ch + 1 ELSE ch

\* bookkeeping of one more invocation of fn
Counted(s, old) ==
    [s EXCEPT !.calls = @ + 1, !.running = @ + 1, !.inCall = 0,
              !.lateCalls = IF old.shutdowns > 0 THEN @ + 1 ELSE @]

\* scheduler.go:46-52: Run creates the ticker and calls fn at once
RunImmediate ==
    /\ sched.pc = "start"
    /\ sched' = Counted(Invoke(sched), sched)
    /\ UNCHANGED notSched

\* fn returns to Run
RunFnReturn ==
    /\ sched.pc = "cycle"
    /\ sched' = [FnReturn(sched) EXCEPT !.running = @ - 1]
    /\ UNCHANGED notSched

\* the ticker fires: the tick is buffered, or dropped when one is waiting
TickerFire ==
    /\ sched.pc \in {"cycle", "select"}
    /\ sched.fired < MaxTicks
    /\ LET during == IF sched.pc = "cycle" THEN sched.inCall + 1 ELSE sched.inCall
       IN sched' = [sched EXCEPT
              !.fired = @ + 1,
              !.tickCh = TickerSend(@),
              !.dropped = IF TickerSend(sched.tickCh) = sched.tickCh THEN @ + 1 ELSE @,
              !.inCall = during,
              !.maxInCall = IF during > @ THEN during ELSE @]
    /\ UNCHANGED notSched

\* scheduler.go:54-64: one pass through the select
RunSelect(case) ==
    /\ sched.pc = "select"
    /\ case \in ReadyCases(sched, sched.ctxDone, sched.tickCh > 0)
    /\ sched' = IF case = "tick"
                THEN LET t == [sched EXCEPT !.tickCh = @ - 1, !.received = @ + 1]
                     IN IF Selected(t, case).pc = "cycle"
                        THEN Counted(Selected(t, case), sched)
                        ELSE Selected(t, case)
                ELSE Selected(sched, case)
    /\ UNCHANGED notSched

\* some goroutine calls Scheduler.Shutdown
CallShutdown ==
    /\ sched.shutdowns < MaxShutdowns
    /\ sched' = [Shutdown(sched) EXCEPT
                    !.shutdowns = @ + 1,
                    !.changedLater = @ \/ (sched.shutdowns > 0 /\ Shutdown(sched) /= sched)]
    /\ UNCHANGED notSched

\* the context passed to Run is cancelled
CancelRun ==
    /\ ~sched.ctxDone
    /\ sched' = [sched EXCEPT !.ctxDone = TRUE]
    /\ UNCHANGED notSched

NextSched ==
    \/ RunImmediate
    \/ RunFnReturn
    \/ TickerFire
    \/ \E case \in {"ctx", "stop", "tick"} : RunSelect(case)
    \/ CallShutdown
    \/ CancelRun

-----------------------------------------------------------------------------
(* SpecClient: one Client and the calls made on it, one at a time *)

\* wbapi.New (client.go:78-92): limited is WithRateLimit with rps > 0
NewClient(limited) ==
    [limited |-> limited, tokens |-> IF limited THEN MaxBurst ELSE 0,
     pc |-> "idle", op |-> "none", ctxDone |-> FALSE, calls |-> 0,
     sent |-> FALSE, err |-> "none", cancelledInWait |-> FALSE]

\* the call returns what do returned, with the envelope looked at
Returned(c, r) ==
    [c EXCEPT !.pc = "done", !.sent = r.sent, !.err = EnvelopeChecked(r)]

\* FetchUnanswered or AnswerFeedback is called and reaches Client.do
ClientCall(op) ==
    /\ cli.pc \in {"idle", "done"}
    /\ cli.calls < MaxCalls
    /\ cli' = [cli EXCEPT !.pc = "enter", !.op = op, !.calls = @ + 1,
                          !.sent = FALSE, !.err = "none", !.cancelledInWait = FALSE]
    /\ UNCHANGED notClient

\* Client.wait (client.go:185-190) and the entry of rate.Limiter.Wait: no
\* limiter, a cancelled context, a token at hand, or a wait for one
WaitEnter ==
    /\ cli.pc = "enter"
    /\ cli' = IF ~cli.limited THEN [cli EXCEPT !.pc = "send"]
              ELSE IF cli.ctxDone THEN Returned(cli, do("ctx", OkResponse))
              ELSE IF cli.tokens > 0 THEN [cli EXCEPT !.pc = "send", !.tokens = @ - 1]
              ELSE [cli EXCEPT !.pc = "wait"]
    /\ UNCHANGED notClient

\* the awaited token becomes due before the context is cancelled
WaitGranted ==
    /\ cli.pc = "wait"
    /\ ~cli.ctxDone
    /\ cli' = [cli EXCEPT !.pc = "send"]
    /\ UNCHANGED notClient

\* the context was cancelled during the wait: Wait returns its error and do
\* returns it (client.go:154-156); resp is what the vendor would have said
WaitCancelled(resp) ==
    /\ cli.pc = "wait"
    /\ cli.ctxDone
    /\ cli' = Returned(cli, do("ctx", resp))
    /\ UNCHANGED notClient

\* client.go:157-172: httpClient.Do; a cancelled context fails the transfer
Send(resp) ==
    /\ cli.pc = "send"
    /\ cli.ctxDone => resp = TransportFailure
    /\ cli' = Returned(cli, do("nil", resp))
    /\ UNCHANGED notClient

\* time passes and the limiter's bucket gains a token
Refill ==
    /\ cli.limited
    /\ cli.pc \in {"idle", "done"}
    /\ cli.tokens < MaxBurst
    /\ cli' = [cli EXCEPT !.tokens = @ + 1]
    /\ UNCHANGED notClient

\* the caller's context is cancelled
CancelCall ==
    /\ ~cli.ctxDone
    /\ cli' = [cli EXCEPT !.ctxDone = TRUE, !.cancelledInWait = cli.pc = "wait"]
    /\ UNCHANGED notClient

NextClient ==
    \/ \E op \in {"FetchUnanswered", "AnswerFeedback"} : ClientCall(op)
    \/ WaitEnter
    \/ WaitGranted
    \/ \E resp \in Responses : WaitCancelled(resp)
    \/ \E resp \in Responses : Send(resp)
    \/ Refill
    \/ CancelCall

-----------------------------------------------------------------------------
(* SpecLimiter: the scheduler's cycle and a run-now cycle of one tenant call
   the tenant's Client, built WithRateLimit, at the same time *)

Goroutines == {"g1", "g2"}

IdleCall == [pc |-> "idle", paid |-> FALSE, waited |-> FALSE, due |-> 0]

\* wbapi.New with WithRateLimit(rps, MaxBurst): the bucket starts full.
\* tokens below zero are tokens reserved by calls that wait for them;
\* refilled, requests and unpaid count the tokens gained, the requests
\* handed to the HTTP client and those of them made without a token.
NewLimited ==
    [limiter |-> "finite", tokens |-> MaxBurst, refilled |-> 0, requests |-> 0,
     unpaid |-> 0, calls |-> 0, call |-> [g \in Goroutines |-> IdleCall]]

\* A wait that never asks the limiter.
LimiterNever(limiter) == FALSE

\* client.go:186: the limiter is asked unless it is nil or unlimited
LimiterApplies(limiter) == limiter /= "nil" /\ limiter /= "inf"

\* goroutine g calls FetchUnanswered or AnswerFeedback and reaches Client.do
LimCall(g) ==
    /\ lim.call[g].pc \in {"idle", "done"}
    /\ lim.calls < MaxLimCalls
    /\ lim' = [lim EXCEPT !.calls = @ + 1, !.call[g] = [IdleCall EXCEPT !.pc = "enter"]]
    /\ UNCHANGED notLimiter

\* Client.wait (client.go:185-190) and the reservation inside Limiter.Wait:
\* a token at hand is taken; otherwise the next token to come is reserved
\* and the call sleeps until the bucket has gained it
LimWait(g) ==
    /\ lim.call[g].pc = "enter"
    /\ lim' = IF ~LimiterApplies(lim.limiter)
              THEN [lim EXCEPT !.call[g].pc = "send"]
              ELSE IF lim.tokens > 0
              THEN [lim EXCEPT !.tokens = @ - 1, !.call[g].pc = "send",
                               !.call[g].paid = TRUE]
              ELSE [lim EXCEPT !.tokens = @ - 1, !.call[g].pc = "wait",
                               !.call[g].waited = TRUE,
                               !.call[g].due = lim.refilled + 1 - lim.tokens]
    /\ UNCHANGED notLimiter

\* the reserved token has come: Wait returns nil
LimGranted(g) ==
    /\ lim.call[g].pc = "wait"
    /\ lim.refilled >= lim.call[g].due
    /\ lim' = [lim EXCEPT !.call[g].pc = "send", !.call[g].paid = TRUE]
    /\ UNCHANGED notLimiter

\* the call's context is cancelled during the sleep: Wait cancels the
\* reservation, which gives the token back unless a later reservation
\* stands on it, and do returns the error (client.go:154-156)
LimCancelled(g, restored) ==
    /\ lim.call[g].pc = "wait"
    /\ lim.refilled < lim.call[g].due
    /\ lim' = [lim EXCEPT !.tokens = @ + restored, !.call[g].pc = "done"]
    /\ UNCHANGED notLimiter

\* client.go:157: httpClient.Do(req)
LimSend(g) ==
    /\ lim.call[g].pc = "send"
    /\ lim' = [lim EXCEPT !.requests = @ + 1,
                          !.unpaid = IF lim.call[g].paid THEN @ ELSE @ + 1,
                          !.call[g].pc = "done"]
    /\ UNCHANGED notLimiter

\* time passes and the bucket, not yet full, gains a token
LimRefill ==
    /\ lim.tokens < MaxBurst
    /\ lim.refilled < MaxRefill
    /\ lim' = [lim EXCEPT !.tokens = @ + 1, !.refilled = @ + 1]
    /\ UNCHANGED notLimiter

NextLimiter ==
    \/ \E g \in Goroutines : LimCall(g)
    \/ \E g \in Goroutines : LimWait(g)
    \/ \E g \in Goroutines : LimGranted(g)
    \/ \E g \in Goroutines, restored \in {0, 1} : LimCancelled(g, restored)
    \/ \E g \in Goroutines : LimSend(g)
    \/ LimRefill

-----------------------------------------------------------------------------
(* SpecPool: Bot.Run receiving updates and starting handler goroutines *)

\* part_002:138: goroutineSemaphore: make(chan struct{}, 100)
SemaphoreSize == 100

\* what an update carries: a callback query, a message, or neither
UpdateKinds == {"callback", "message", "other"}

\* Bot.Run at the top of its loop, no slot taken, no handler running
NewPool ==
    [pc |-> "recv", update |-> "", slots |-> 0, running |-> 0, dropped |-> 0,
     done |-> FALSE]

\* An inner select without its default case.
InnerReadyNoDefault(slots, done) ==
    {c \in {"slot", "ctx"} : \/ c = "slot" /\ slots < SemaphoreSize
                             \/ c = "ctx" /\ done}

\* part_002:233-265: the cases of the inner select that can proceed; default
\* runs only when no other case can
InnerReady(slots, done) ==
    LET ready == {c \in {"slot", "ctx"} : \/ c = "slot" /\ slots < SemaphoreSize
                                          \/ c = "ctx" /\ done}
    IN IF ready = {} THEN {"default"} ELSE ready

\* part_002:231: case update := <-updates
PoolReceive(kind) ==
    /\ pool.pc = "recv"
    /\ pool.dropped < MaxDropped
    /\ pool' = [pool EXCEPT !.pc = "dispatch", !.update = kind]
    /\ UNCHANGED notPool

\* part_002:233-265: a slot is taken and, for a callback query or a message,
\* a handler goroutine started; or the loop returns; or the update is skipped
PoolDispatch(case) ==
    /\ pool.pc = "dispatch"
    /\ case \in InnerReady(pool.slots, pool.done)
    /\ pool' = CASE case = "slot" ->
                      [pool EXCEPT !.slots = @ + 1,
                                   !.running = IF pool.update = "other" THEN @ ELSE @ + 1,
                                   !.pc = "recv", !.update = ""]
                 [] case = "ctx" ->
                      [pool EXCEPT !.pc = "returned", !.update = ""]
                 [] case = "default" ->
                      [pool EXCEPT !.dropped = @ + 1, !.pc = "recv", !.update = ""]
    /\ UNCHANGED notPool

\* part_002:237-246, 250-259: the handler returns and its deferred function
\* gives the slot back
PoolHandlerDone ==
    /\ pool.running > 0
    /\ pool' = [pool EXCEPT !.running = @ - 1, !.slots = @ - 1]
    /\ UNCHANGED notPool

\* part_002:227-230: case <-ctx.Done()
PoolStop ==
    /\ pool.pc = "recv"
    /\ pool.done
    /\ pool' = [pool EXCEPT !.pc = "returned"]
    /\ UNCHANGED notPool

\* the root context is cancelled
PoolCancel ==
    /\ ~pool.done
    /\ pool' = [pool EXCEPT !.done = TRUE]
    /\ UNCHANGED notPool

PoolDispatchAny == \E case \in {"slot", "ctx", "default"} : PoolDispatch(case)

NextPool ==
    \/ \E kind \in UpdateKinds : PoolReceive(kind)
    \/ PoolDispatchAny
    \/ PoolHandlerDone
    \/ PoolStop
    \/ PoolCancel

-----------------------------------------------------------------------------
(* SpecEngine: service.New called once with arbitrary template texts *)

\* texts a caller may pass as a template: empty, blank, padded, plain
Texts == {"", "   ", " Thanks! ", "Sorry!\n", "Thanks!", "Sorry!"}

\* page sizes a caller may pass
Takes == {0, 100, 5001}

\* no Service: the value the caller is left with when New panicked
NoService == [userID |-> NoUser, templates |-> [panic |-> TRUE, bad |-> "", good |-> ""],
              take |-> 0]

\* the arguments of the call that is about to be made
EngineCall(bad, good, take) ==
    [pc |-> "call", bad |-> bad, good |-> good, take |-> take, svc |-> NoService,
     out |-> ""]

\* cycle.go:29-44 and templates.go:25-36: New returns the Service, or the
\* panic of NewTemplateEngine leaves the caller without one
EngineNew ==
    /\ eng.pc = "call"
    /\ LET s == New(1, eng.bad, eng.good, eng.take)
       IN eng' = IF s.templates.panic
                 THEN [eng EXCEPT !.pc = "panicked"]
                 ELSE [eng EXCEPT !.pc = "built", !.svc = s]
    /\ UNCHANGED notEngine

\* templates.go:41-46: the constructed selector is asked for a text
EngineSelect(rating) ==
    /\ eng.pc = "built"
    /\ eng.out = ""
    /\ eng' = [eng EXCEPT !.out = Select(eng.svc.templates, rating)]
    /\ UNCHANGED notEngine

NextEngine ==
    \/ EngineNew
    \/ \E rating \in 1..5 : EngineSelect(rating)

-----------------------------------------------------------------------------
(* SpecCleanup: the per-user maps of the bot (userStates, userConfig,
   userRateLimiters, subscriptionCache), the updates that fill them and the
   hourly performCleanup that empties them. *)

InactiveAfter == 24  \* hours without an update after which a user counts as inactive
MaxCleanups == 2     \* SpecCleanup: runs of performCleanup per behaviour

\* StateWaitingToken, StateWaitingTemplateGood; "" is StateIdle (no entry)
WaitingStates == {"waiting_token", "waiting_template_good"}

\* a user nobody has heard of: no entry in any map, no token, no service
NewUser ==
    [state |-> "", pending |-> FALSE, limiter |-> FALSE, cache |-> FALSE,
     token |-> FALSE, service |-> FALSE, idle |-> InactiveAfter]

NewChat == [user |-> [t \in Tenants |-> NewUser], runs |-> 0]

\* the four map entries performCleanup is about
MapEntries(u) == <<u.state, u.pending, u.limiter, u.cache>>

\* checkRateLimit and checkChannelSubscription at the head of every handler
Touched(u) == [u EXCEPT !.limiter = TRUE, !.cache = TRUE, !.idle = 0]

\* resetUserState: both userStates and userConfig lose the entry
ResetUserState(u) == [u EXCEPT !.state = "", !.pending = FALSE]

\* handleAddTokenButton / handleAddTemplateGoodButton
ChatButton(t, st) ==
    LET u == chat.user[t]
    IN /\ IF st = "waiting_token" THEN ~u.token ELSE u.token
       /\ chat' = [chat EXCEPT !.user[t] =
                      [Touched(u) EXCEPT !.state = st,
                                         !.pending = u.pending \/ st /= "waiting_token"]]
       /\ UNCHANGED notCleanup

\* handleMessage with a text: the switch on getUserState
ChatText(t, allFieldsSet) ==
    LET u == chat.user[t]
    IN /\ chat' = [chat EXCEPT !.user[t] =
                      CASE u.state = "" -> Touched(u)
                        [] u.state = "waiting_token" ->
                               ResetUserState([Touched(u) EXCEPT !.token = TRUE])
                        [] OTHER ->
                               ResetUserState([Touched(u) EXCEPT
                                   !.service = u.service \/ allFieldsSet])]
       /\ UNCHANGED notCleanup

\* handleConfirmDelete: the row, the service and the dialogue go
ChatDelete(t) ==
    LET u == chat.user[t]
    IN /\ u.token
       /\ chat' = [chat EXCEPT !.user[t] =
                      ResetUserState([Touched(u) EXCEPT !.token = FALSE, !.service = FALSE])]
       /\ UNCHANGED notCleanup

\* an hour passes without an update of anybody
ChatHour ==
    /\ \E t \in Tenants : chat.user[t].idle < InactiveAfter
    /\ chat' = [chat EXCEPT !.user = [t \in Tenants |->
                   [chat.user[t] EXCEPT !.idle = IF @ < InactiveAfter THEN @ + 1 ELSE @]]]
    /\ UNCHANGED notCleanup

\* performCleanup: every chat id outside b.services loses its entries
Cleanup(u) ==
    IF u.service THEN u
    ELSE [ResetUserState(u) EXCEPT !.limiter = FALSE, !.cache = FALSE]

\* cleanupInactiveUsers: the ticker fires
PerformCleanup ==
    /\ chat.runs < MaxCleanups
    /\ chat' = [user |-> [t \in Tenants |-> Cleanup(chat.user[t])],
                runs |-> chat.runs + 1]
    /\ UNCHANGED notCleanup

NextCleanup ==
    \/ \E t \in Tenants, st \in WaitingStates : ChatButton(t, st)
    \/ \E t \in Tenants, allFieldsSet \in BOOLEAN : ChatText(t, allFieldsSet)
    \/ \E t \in Tenants : ChatDelete(t)
    \/ ChatHour
    \/ PerformCleanup

-----------------------------------------------------------------------------
(* SpecStop: one Scheduler whose Shutdown is called by several goroutines
   at once.  Shutdown is a select on stopCh followed, in its default case,
   by close(stopCh): two steps with nothing holding them together. *)

Stoppers == {1, 2, 3}

NewStop ==
    [stopped |-> FALSE, closes |-> 0, panicked |-> FALSE,
     pc |-> [g \in Stoppers |-> "idle"], calls |-> [g \in Stoppers |-> 0]]

\* a goroutine calls Shutdown
StopCall(g) ==
    /\ ~stp.panicked
    /\ stp.pc[g] = "idle"
    /\ stp.calls[g] < MaxShutdowns
    /\ stp' = [stp EXCEPT !.pc[g] = "select", !.calls[g] = @ + 1]
    /\ UNCHANGED notStop

\* select { case <-s.stopCh: (closed: return)  default: (go on to close) }
StopSelect(g) ==
    /\ ~stp.panicked
    /\ stp.pc[g] = "select"
    /\ stp' = [stp EXCEPT !.pc[g] = IF stp.stopped THEN "idle" ELSE "close"]
    /\ UNCHANGED notStop

\* close(s.stopCh): closing a closed channel panics
StopClose(g) ==
    /\ ~stp.panicked
    /\ stp.pc[g] = "close"
    /\ stp' = [stp EXCEPT !.pc[g] = "idle",
                          !.closes = @ + 1,
                          !.stopped = TRUE,
                          !.panicked = stp.stopped]
    /\ UNCHANGED notStop

NextStop ==
    \/ \E g \in Stoppers : StopCall(g)
    \/ \E g \in Stoppers : StopSelect(g)
    \/ \E g \in Stoppers : StopClose(g)

-----------------------------------------------------------------------------
(* SpecLocks: the four sync.RWMutex of the Bot and the goroutines that take
   them.  A goroutine runs one function at a time, as the list of lock
   operations the function performs; a call of Lock or RLock first waits
   (a waiting writer holds back new readers) and then acquires. *)

Mutexes == {"mu", "svcMu", "rateLimitMu", "subscriptionCacheMu"}

\* the order in which performCleanup, the one function holding two of them,
\* takes the mutexes
LockRank(m) ==
    CASE m = "mu" -> 1
      [] m = "svcMu" -> 2
      [] m = "rateLimitMu" -> 3
      [] m = "subscriptionCacheMu" -> 4

LockGoroutines == {1, 2, 3}

Op(op, m) == [op |-> op, m |-> m]

\* performCleanup: mu for the whole run, the other three inside it
PerformCleanupOps ==
    << Op("Lock", "mu"),
       Op("RLock", "svcMu"), Op("RUnlock", "svcMu"),
       Op("Lock", "rateLimitMu"), Op("Unlock", "rateLimitMu"),
       Op("Lock", "subscriptionCacheMu"), Op("Unlock", "subscriptionCacheMu"),
       Op("Unlock", "mu") >>

\* An initializeServiceForUser that writes the user's state while it holds svcMu.
InitializeServiceNested ==
    << Op("Lock", "svcMu"), Op("Lock", "mu"), Op("Unlock", "mu"), Op("Unlock", "svcMu") >>

\* initializeServiceForUser, shutdownUserService, Bot.Shutdown: svcMu only;
\* updateActiveUsersMetric is started with go and runs on its own
InitializeServiceOps == << Op("Lock", "svcMu"), Op("Unlock", "svcMu") >>

\* updateActiveUsersMetric, getServiceForUser, handleViewInfo, handleAdminCommand
ReadServicesOps == << Op("RLock", "svcMu"), Op("RUnlock", "svcMu") >>

\* getUserState, getUserConfig
GetUserStateOps == << Op("RLock", "mu"), Op("RUnlock", "mu") >>

\* setUserState, resetUserState, setUserConfig
SetUserStateOps == << Op("Lock", "mu"), Op("Unlock", "mu") >>

\* getUserRateLimiter
GetUserRateLimiterOps == << Op("Lock", "rateLimitMu"), Op("Unlock", "rateLimitMu") >>

\* checkChannelSubscription: the cache is read, then written
CheckChannelSubscriptionOps ==
    << Op("RLock", "subscriptionCacheMu"), Op("RUnlock", "subscriptionCacheMu"),
       Op("Lock", "subscriptionCacheMu"), Op("Unlock", "subscriptionCacheMu") >>

Functions ==
    {PerformCleanupOps, InitializeServiceOps, ReadServicesOps, GetUserStateOps,
     SetUserStateOps, GetUserRateLimiterOps, CheckChannelSubscriptionOps}

IdleGoroutine == [ops |-> <<>>, waiting |-> FALSE, held |-> <<>>]

NewLocks ==
    [g |-> [n \in LockGoroutines |-> IdleGoroutine],
     writer |-> [m \in Mutexes |-> 0],
     readers |-> [m \in Mutexes |-> {}]]

\* the operation goroutine n is at
NextOp(n) == Head(locks.g[n].ops)

Busy(n) == locks.g[n].ops /= <<>>

\* goroutines inside a call of m.Lock()
WaitingWriters(m) ==
    {n \in LockGoroutines :
        /\ Busy(n) /\ locks.g[n].waiting
        /\ NextOp(n) = Op("Lock", m)}

\* the call goroutine n is blocked in can return
CanAcquire(n) ==
    LET o == NextOp(n)
    IN /\ locks.writer[o.m] = 0
       /\ IF o.op = "Lock" THEN locks.readers[o.m] = {}
                           ELSE WaitingWriters(o.m) = {}

\* the goroutine can take its next step
CanStep(n) ==
    /\ Busy(n)
    /\ \/ NextOp(n).op \in {"Unlock", "RUnlock"}
       \/ ~locks.g[n].waiting
       \/ CanAcquire(n)

\* a goroutine enters one of the functions
LockStart(n, f) ==
    /\ ~Busy(n)
    /\ locks' = [locks EXCEPT !.g[n].ops = f]
    /\ UNCHANGED notLocks

\* Lock or RLock is called: the goroutine is now waiting for the mutex
LockRequest(n) ==
    /\ Busy(n)
    /\ NextOp(n).op \in {"Lock", "RLock"}
    /\ ~locks.g[n].waiting
    /\ locks' = [locks EXCEPT !.g[n].waiting = TRUE]
    /\ UNCHANGED notLocks

\* Lock or RLock returns
LockAcquire(n) ==
    /\ Busy(n)
    /\ NextOp(n).op \in {"Lock", "RLock"}
    /\ locks.g[n].waiting
    /\ CanAcquire(n)
    /\ LET o == NextOp(n)
       IN locks' = [locks EXCEPT
                      !.g[n] = [ops |-> Tail(@.ops), waiting |-> FALSE,
                                held |-> Append(@.held, o.m)],
                      !.writer[o.m] = IF o.op = "Lock" THEN n ELSE @,
                      !.readers[o.m] = IF o.op = "RLock" THEN @ \cup {n} ELSE @]
    /\ UNCHANGED notLocks

\* Unlock or RUnlock
LockRelease(n) ==
    /\ Busy(n)
    /\ NextOp(n).op \in {"Unlock", "RUnlock"}
    /\ LET o == NextOp(n)
       IN locks' = [locks EXCEPT
                      !.g[n] = [@ EXCEPT !.ops = Tail(@),
                                         !.held = SelectSeq(@, LAMBDA m : m /= o.m)],
                      !.writer[o.m] = IF o.op = "Unlock" THEN 0 ELSE @,
                      !.readers[o.m] = IF o.op = "RUnlock" THEN @ \ {n} ELSE @]
    /\ UNCHANGED notLocks

NextLocks ==
    \/ \E n \in LockGoroutines, f \in Functions : LockStart(n, f)
    \/ \E n \in LockGoroutines : LockRequest(n)
    \/ \E n \in LockGoroutines : LockAcquire(n)
    \/ \E n \in LockGoroutines : LockRelease(n)

\* the scheduler, the clients, the update loop and the constructor where
\* they are not exercised on their own
IdleUnits ==
    /\ sched = NewSched
    /\ cli = NewClient(TRUE)
    /\ lim = NewLimited
    /\ pool = NewPool
    /\ eng = EngineCall("Sorry!", "Thanks!", 5000)
    /\ chat = NewChat
    /\ stp = NewStop
    /\ locks = NewLocks

Init ==
    /\ InitStoreVars({"sqlite"})
    /\ InitCallers
    /\ IdleSelect
    /\ InitCycles
    /\ InitBotVars({NilConfig})
    /\ IdleUnits

Next ==
    \/ \E p \in Runners, u \in Tenants : StartCycle(p, u)
    \/ \E p \in Runners, resp \in Responses, list \in FetchLists : Fetch(p, resp, list)
    \/ \E p \in Runners : LoopHead(p)
    \/ \E p \in Runners, ok \in BOOLEAN : Exists(p, ok)
    \/ \E p \in Runners, resp \in Responses : Answer(p, resp)
    \/ \E p \in Runners, ok \in BOOLEAN : Save(p, ok)
    \/ Cancel

vars == <<storeVars, callerVars, selVars, cycleVars, botVars, sched, cli, lim, pool, eng, chat, stp, locks>>

Spec == Init /\ [][Next]_vars

NextStore ==
    \/ \E c \in Callers, u \in Tenants, id \in Ids, dbOK \in BOOLEAN : CallExists(c, u, id, dbOK)
    \/ \E c \in Callers, u \in Tenants, id \in Ids, dbOK \in BOOLEAN : CallSave(c, u, id, dbOK)

InitStore ==
    /\ InitStoreVars(Backends)
    /\ InitCallers
    /\ IdleSelect
    /\ InitCycles
    /\ InitBotVars({NilConfig})
    /\ IdleUnits

SpecStore == InitStore /\ [][NextStore]_vars

NextSelect == CallSelect

InitSelectSpec ==
    /\ InitStoreVars({"sqlite"})
    /\ InitCallers
    /\ InitSelect
    /\ InitCycles
    /\ InitBotVars({NilConfig})
    /\ IdleUnits

SpecSelect == InitSelectSpec /\ [][NextSelect]_vars

InitBot ==
    /\ InitStoreVars({"sqlite"})
    /\ InitCallers
    /\ IdleSelect
    /\ InitCycles
    /\ InitBotVars({NilConfig, StoredConfig})
    /\ IdleUnits

SpecBot == InitBot /\ [][NextBot]_vars

-----------------------------------------------------------------------------
(* SpecMarks: the handlers that register and remove the service of one
   tenant (run-now, confirm-delete), the shutdown of the bot, and the marks
   the cycles of the tenant's services write while they run. *)

\* cycle.go:76-100 in a cycle the scheduler started: a review without a mark
\* is answered and its mark saved; the cycle's context is the bot's
SchedCycleSave(n, id) ==
    /\ n \in 1..Len(inst)
    /\ inst[n].pc = "cycle"
    /\ ~botCtxDone
    /\ ~StoreExists(backend, processed, inst[n].userID, id, TRUE).exists
    /\ processed' = StoreSave(backend, processed, inst[n].userID, id, TRUE).table
    /\ UNCHANGED <<botVars, notBot>>

\* the same in a cycle the run-now goroutine started
ManualCycleSave(m, id) ==
    /\ m \in 1..Len(manual)
    /\ manual[m].pc = "cycle"
    /\ ~StoreExists(backend, processed, manual[m].userID, id, TRUE).exists
    /\ processed' = StoreSave(backend, processed, manual[m].userID, id, TRUE).table
    /\ UNCHANGED <<botVars, notBot>>

NextMarks ==
    \/ \E h \in Handlers : StartHandler(h, "run_now", 1, "", "")
    \/ \E h \in Handlers : StartHandler(h, "delete", 1, "", "")
    \/ \E h \in Handlers : HandlerReset(h)
    \/ \E h \in Handlers, ok \in BOOLEAN : RunNowLoad(h, ok)
    \/ \E h \in Handlers : RunNowGet(h)
    \/ \E h \in Handlers : RunNowInit(h)
    \/ \E h \in Handlers : RunNowGet2(h)
    \/ \E h \in Handlers : RunNowSpawn(h)
    \/ \E m \in 1..MaxManual : ManualEnd(m)
    \/ \E m \in 1..MaxManual, id \in Ids : ManualCycleSave(m, id)
    \/ \E h \in Handlers, res \in {"ok", "err_processed", "err_config"} : DeleteConfig(h, res)
    \/ \E h \in Handlers : ShutdownUserService(h)
    \/ \E n \in 1..MaxInst : SchedRunStart(n)
    \/ \E n \in 1..MaxInst : SchedCycleEnd(n)
    \/ \E n \in 1..MaxInst, id \in Ids : SchedCycleSave(n, id)
    \/ \E n \in 1..MaxInst, case \in {"ctx", "stop", "tick"} : SchedSelect(n, case)
    \/ CancelBot
    \/ BotShutdown

SpecMarks == InitBot /\ [][NextMarks]_vars

\* texts a user can send as a template: both pass the length checks of
\* handleTemplateGoodInput / handleTemplateBadInput (part_002:1257-1278)
NewTemplate == "new reply"
TemplateInputs(field) == {InputValue(field), NewTemplate, DefaultTpl}

\* SpecConfig: one tenant's configuration dialogue, its templates being any
\* admissible text, with run-now and delete
NextConfig ==
    \/ \E h \in Handlers : StartHandler(h, "input", 1, "token", InputValue("token"))
    \/ \E h \in Handlers, f \in {"good", "bad"} : \E v \in TemplateInputs(f) :
          StartHandler(h, "input", 1, f, v)
    \/ \E h \in Handlers : StartHandler(h, "run_now", 1, "", "")
    \/ \E h \in Handlers : StartHandler(h, "delete", 1, "", "")
    \/ \E h \in Handlers, ok \in BOOLEAN : InputSave(h, ok)
    \/ \E h \in Handlers : InputInit(h)
    \/ \E h \in Handlers : HandlerReset(h)
    \/ \E h \in Handlers, ok \in BOOLEAN : RunNowLoad(h, ok)
    \/ \E h \in Handlers : RunNowGet(h)
    \/ \E h \in Handlers : RunNowInit(h)
    \/ \E h \in Handlers : RunNowGet2(h)
    \/ \E h \in Handlers : RunNowSpawn(h)
    \/ \E m \in 1..MaxManual : ManualEnd(m)
    \/ \E h \in Handlers, res \in {"ok", "err_processed", "err_config"} : DeleteConfig(h, res)
    \/ \E h \in Handlers : ShutdownUserService(h)
    \/ \E n \in 1..MaxInst : SchedRunStart(n)
    \/ \E n \in 1..MaxInst : SchedCycleEnd(n)

SpecConfig == InitBot /\ [][NextConfig]_vars

\* SpecTenant: one tenant configuring, running and deleting, with the Run
\* loops of its schedulers going through their selects
NextTenant ==
    \/ \E h \in Handlers, f \in {"token", "good", "bad"} :
          StartHandler(h, "input", 1, f, InputValue(f))
    \/ \E h \in Handlers : StartHandler(h, "run_now", 1, "", "")
    \/ \E h \in Handlers : StartHandler(h, "delete", 1, "", "")
    \/ \E h \in Handlers, ok \in BOOLEAN : InputSave(h, ok)
    \/ \E h \in Handlers : InputInit(h)
    \/ \E h \in Handlers : HandlerReset(h)
    \/ \E h \in Handlers, ok \in BOOLEAN : RunNowLoad(h, ok)
    \/ \E h \in Handlers : RunNowGet(h)
    \/ \E h \in Handlers : RunNowInit(h)
    \/ \E h \in Handlers : RunNowGet2(h)
    \/ \E h \in Handlers : RunNowSpawn(h)
    \/ \E m \in 1..MaxManual : ManualEnd(m)
    \/ \E h \in Handlers, res \in {"ok", "err_processed", "err_config"} : DeleteConfig(h, res)
    \/ \E h \in Handlers : ShutdownUserService(h)
    \/ \E n \in 1..MaxInst : SchedRunStart(n)
    \/ \E n \in 1..MaxInst : SchedCycleEnd(n)
    \/ \E n \in 1..MaxInst, case \in {"ctx", "stop", "tick"} : SchedSelect(n, case)
    \/ CancelBot

\* The goroutine of every Run loop is scheduled, the cycle it calls returns,
\* and its select, which chooses among the ready cases at random, does not
\* pass over a case that is ready again and again.
FairScheds ==
    \A n \in 1..MaxInst :
        /\ WF_vars(SchedRunStart(n))
        /\ WF_vars(SchedCycleEnd(n))
        /\ SF_vars(SchedSelect(n, "stop"))
        /\ SF_vars(SchedSelect(n, "ctx"))

SpecTenant == InitBot /\ [][NextTenant]_vars /\ FairScheds

SpecSched == Init /\ [][NextSched]_vars

InitClient ==
    /\ InitStoreVars({"sqlite"})
    /\ InitCallers
    /\ IdleSelect
    /\ InitCycles
    /\ InitBotVars({NilConfig})
    /\ sched = NewSched
    /\ \E limited \in BOOLEAN : cli = NewClient(limited)
    /\ lim = NewLimited
    /\ pool = NewPool
    /\ eng = EngineCall("Sorry!", "Thanks!", 5000)
    /\ chat = NewChat
    /\ stp = NewStop
    /\ locks = NewLocks

SpecClient == InitClient /\ [][NextClient]_vars

SpecLimiter == Init /\ [][NextLimiter]_vars

SpecPool == Init /\ [][NextPool]_vars

InitEngine ==
    /\ InitStoreVars({"sqlite"})
    /\ InitCallers
    /\ IdleSelect
    /\ InitCycles
    /\ InitBotVars({NilConfig})
    /\ sched = NewSched
    /\ cli = NewClient(TRUE)
    /\ lim = NewLimited
    /\ pool = NewPool
    /\ \E bad \in Texts, good \in Texts, take \in Takes : eng = EngineCall(bad, good, take)
    /\ chat = NewChat
    /\ stp = NewStop
    /\ locks = NewLocks

SpecEngine == InitEngine /\ [][NextEngine]_vars

SpecCleanup == Init /\ [][NextCleanup]_vars

SpecStop == Init /\ [][NextStop]_vars

SpecLocks == Init /\ [][NextLocks]_vars

-----------------------------------------------------------------------------
(* C2 (as the specification states it): at any time at most one Processing
   Cycle is executing for a tenant, whatever the interleaving of scheduler
   ticks, run-now triggers and delete-then-reconfigure. *)
C2_OneCyclePerTenant == \A t \in Tenants : CyclesRunning(t) <= 1

(* C9: calls of initializeServiceForUser for one tenant leave exactly one
   registered service, one registered scheduler and one started Run loop
   that was not told to stop; a call that finds the tenant's service
   registered constructs nothing. *)
C9_OneSchedulerPerTenant ==
    /\ \A t \in Tenants :
          /\ services[t] = schedulers[t]
          /\ LiveScheds(t) = IF schedulers[t] = 0 THEN {} ELSE {schedulers[t]}
    /\ \A h \in Handlers : handler[h].initSaw => handler[h].initMade = 0

\* two run-now handlers of one tenant both found no service and both called
\* initializeServiceForUser: one constructed the pair, the other found it
C9_Witness ==
    \E h, g \in Handlers :
        /\ h /= g
        /\ handler[h].chatID = handler[g].chatID
        /\ handler[h].kind = "run_now" /\ handler[g].kind = "run_now"
        /\ handler[h].initCalled /\ handler[g].initCalled
        /\ handler[h].initMade /= 0
        /\ handler[g].initSaw
        /\ inst[handler[h].initMade].pc /= "start"
        /\ schedulers[handler[h].chatID] = handler[h].initMade


-----------------------------------------------------------------------------
(* Reading a cycle's call log *)

\* positions of the log entries of operation op made for the review at index j
Entries(c, op, j) == {n \in 1..Len(c.log) : c.log[n].op = op /\ c.log[n].k = j}

\* positions of the calls that returned an error
Failures(c) == {n \in 1..Len(c.log) : c.log[n].err /= "nil"}

\* the counters as the log has them
AnsweredInLog(c) == Cardinality({n \in 1..Len(c.log) :
                        c.log[n].op = "Save" /\ c.log[n].err = "nil"})
SkippedInLog(c)  == Cardinality({n \in 1..Len(c.log) :
                        c.log[n].op = "Exists" /\ c.log[n].err = "nil" /\ c.log[n].exists})
FailedInLog(c)   == Cardinality({n \in 1..Len(c.log) :
                        c.log[n].op = "AnswerFeedback" /\ c.log[n].err /= "nil"})

\* no review of the cycle was found marked
NoneMarked(c) == \A n \in 1..Len(c.log) : ~c.log[n].exists

Completed(c) == c.pc = "done" /\ c.outcome = "complete"

\* the place of a call in the body of the loop (cycle.go:75, 87, 94)
OpRank(op) ==
    CASE op = "Exists"         -> 1
      [] op = "AnswerFeedback" -> 2
      [] op = "Save"           -> 3

\* the text the tenant configured for a rating
ExpectedText(u, rating) == IF rating >= 4 THEN GoodText(u) ELSE BadText(u)

-----------------------------------------------------------------------------
(* Claims *)

\* C1: over non-overlapping cycles of one tenant in which no Dedup Store call
\* fails, AnswerFeedback returns success at most once per review id, however
\* often the vendor lists the review.
C1_AnsweredAtMostOnce ==
    \A u \in Tenants, id \in Ids :
        (~overlapped[u] /\ ~storeErr[u]) => okAnswers[<<u, id>>] <= 1

\* C1 witness: a review answered once was listed again by the vendor in a later
\* cycle of the tenant and skipped there.
C1_Witness ==
    \E u \in Tenants, id \in Ids, p \in Runners :
        /\ ~overlapped[u] /\ ~storeErr[u]
        /\ okAnswers[<<u, id>>] = 1
        /\ started >= 2
        /\ cyc[p].userID = u
        /\ \E n \in 1..Len(cyc[p].log) :
              /\ cyc[p].log[n].op = "Exists"
              /\ cyc[p].log[n].id = id
              /\ cyc[p].log[n].exists

\* C3: in a completed cycle over N unmarked reviews in which the only failing
\* call is the answer submission of review k, every review 1..N gets its
\* AnswerFeedback call, no Save is made for k, failed = 1 and answered = N-1.
C3_PartialFailure ==
    \A p \in Runners :
        LET c == cyc[p]
            N == Len(c.feedbacks)
        IN (/\ Completed(c)
            /\ NoneMarked(c)
            /\ Cardinality(Failures(c)) = 1
            /\ \A n \in Failures(c) : c.log[n].op = "AnswerFeedback")
           => /\ \A j \in 1..N : Entries(c, "AnswerFeedback", j) /= {}
              /\ \A n \in Failures(c) : Entries(c, "Save", c.log[n].k) = {}
              /\ c.failed = 1
              /\ c.answered = N - 1

\* C3 witness: the submission of the first of two reviews failed and the
\* second review was answered and saved.
C3_Witness ==
    \E p \in Runners :
        LET c == cyc[p]
        IN /\ Completed(c)
           /\ Len(c.feedbacks) >= 2
           /\ NoneMarked(c)
           /\ Failures(c) = {n \in 1..Len(c.log) :
                                c.log[n].op = "AnswerFeedback" /\ c.log[n].k = 1}
           /\ Failures(c) /= {}
           /\ c.failed = 1
           /\ c.answered = Len(c.feedbacks) - 1

\* C4: when the context is cancelled before review k is begun, the cycle makes
\* no Exists, AnswerFeedback or Save call for the reviews k..N, never advances
\* past k, does not complete the list, and its counters are those of the
\* reviews 1..k-1.
C4_CancelStops ==
    \A p \in Runners :
        LET c == cyc[p]
        IN c.cancelBefore > 0 =>
             /\ \A n \in 1..Len(c.log) : c.log[n].k < c.cancelBefore
             /\ c.i <= c.cancelBefore
             /\ (c.pc = "done" /\ c.cancelBefore <= Len(c.feedbacks))
                    => c.outcome = "cancelled"
             /\ c.pc = "done" =>
                    /\ c.answered = AnsweredInLog(c)
                    /\ c.skipped = SkippedInLog(c)
                    /\ c.failed = FailedInLog(c)

\* C4 witness: a cycle over two reviews was cancelled after its first review
\* had been answered and saved, and returned before the second.
C4_Witness ==
    \E p \in Runners :
        LET c == cyc[p]
        IN /\ c.pc = "done" /\ c.outcome = "cancelled"
           /\ Len(c.feedbacks) = 2
           /\ c.cancelBefore = 2
           /\ c.answered = 1
           /\ Entries(c, "Exists", 2) = {}

\* C5: Save is idempotent: a key that some Save stored is reported by Exists,
\* and a further Save of a stored (tenant, id) returns no error and leaves the
\* table as it was.
C5_SaveIdempotent ==
    /\ \A k \in saved : StoreExists(backend, processed, k[1], k[2], TRUE).exists
    /\ \A c \in Callers :
          LET l == caller[c].last
          IN (l.op = "Save" /\ l.err /= "db") =>
                /\ l.err = "nil"
                /\ l.dup => ~l.changed

\* C5 witness: a caller saved a (tenant, id) that had been saved before.
C5_Witness ==
    \E c \in Callers :
        /\ caller[c].last.op = "Save"
        /\ caller[c].last.dup
        /\ caller[c].last.err = "nil"
        /\ <<caller[c].last.user, caller[c].last.id>> \in saved

\* C6: tenant isolation: Exists(B, id) is true only if some Save was made
\* under tenant B itself for that id.
C6_TenantIsolation ==
    \A u \in Tenants, id \in Ids :
        StoreExists(backend, processed, u, id, TRUE).exists => <<u, id>> \in saved

\* C7: two callers that both saw a key absent and then both saved it get no
\* error, and the table holds exactly one row for the key.
C7_RacingSaves ==
    \A r1 \in caller["c1"].raced, r2 \in caller["c2"].raced :
        r1.key = r2.key =>
            /\ r1.err = "nil"
            /\ r2.err = "nil"
            /\ processed[StoreKey(backend, r1.key[1], r1.key[2])] = 1

\* C7 witness: both callers saved the same key after both had seen it absent.
C7_Witness ==
    \E r1 \in caller["c1"].raced, r2 \in caller["c2"].raced : r1.key = r2.key

\* C8: Select is total: for every rating it returns the tenant's good text
\* when the rating is at least 4 and the bad text otherwise, and the call is
\* always possible.
C8_SelectTotal ==
    /\ selOut = "" => ENABLED CallSelect
    /\ selOut /= "" =>
          /\ selOut \in {GoodText(selIn.user), BadText(selIn.user)}
          /\ selIn.rating >= 4 => selOut = GoodText(selIn.user)
          /\ selIn.rating < 4 => selOut = BadText(selIn.user)

\* C8 witness: Select answered a negative rating.
C8_Witness == selOut /= "" /\ selIn.rating < 0

\* C10: in a completed cycle in which every call succeeded, each review found
\* unmarked got exactly one AnswerFeedback call with its own id and the text
\* for its rating, then exactly one Save of its id, and the mark is stored;
\* tenant 1 with ratings 5 and 2 sends "Thanks!" and "Sorry!".
C10_AnswerThenSave ==
    \A p \in Runners :
        LET c == cyc[p]
        IN (Completed(c) /\ Failures(c) = {}) =>
             /\ \A j \in 1..Len(c.feedbacks) :
                   (\E n \in Entries(c, "Exists", j) : ~c.log[n].exists) =>
                      /\ Cardinality(Entries(c, "AnswerFeedback", j)) = 1
                      /\ Cardinality(Entries(c, "Save", j)) = 1
                      /\ \A a \in Entries(c, "AnswerFeedback", j), v \in Entries(c, "Save", j) :
                            /\ a < v
                            /\ c.log[a].id = c.feedbacks[j].ID
                            /\ c.log[a].text =
                                  ExpectedText(c.userID, c.feedbacks[j].ProductValuation)
                            /\ c.log[v].id = c.feedbacks[j].ID
                      /\ processed[<<c.userID, c.feedbacks[j].ID>>] = 1
             /\ (/\ c.userID = 1 /\ NoneMarked(c)
                 /\ c.feedbacks = <<[ID |-> "id1", ProductValuation |-> 5],
                                    [ID |-> "id2", ProductValuation |-> 2]>>)
                  => /\ \E a \in Entries(c, "AnswerFeedback", 1) : c.log[a].text = "Thanks!"
                     /\ \E a \in Entries(c, "AnswerFeedback", 2) : c.log[a].text = "Sorry!"
                     /\ {<<1, "id1">>, <<1, "id2">>} \subseteq saved

\* C10 witness: tenant 1's cycle over the ratings 5 and 2, neither marked,
\* completed without a failure.
C10_Witness ==
    \E p \in Runners :
        LET c == cyc[p]
        IN /\ Completed(c) /\ Failures(c) = {} /\ NoneMarked(c)
           /\ c.userID = 1
           /\ c.feedbacks = <<[ID |-> "id1", ProductValuation |-> 5],
                              [ID |-> "id2", ProductValuation |-> 2]>>
           /\ c.answered = 2

\* C11: a fetched review that Exists reports as marked is skipped: it is
\* counted in skipped and gets neither an AnswerFeedback nor a Save call, so
\* a completed cycle whose N reviews were all found marked has skipped = N
\* and answered = 0.
C11_MarkedSkipped ==
    \A p \in Runners :
        LET c == cyc[p]
            marked(j) == \E n \in Entries(c, "Exists", j) :
                            c.log[n].err = "nil" /\ c.log[n].exists
        IN /\ \A j \in 1..Len(c.feedbacks) :
                 marked(j) => /\ Entries(c, "AnswerFeedback", j) = {}
                              /\ Entries(c, "Save", j) = {}
           /\ c.skipped = SkippedInLog(c)
           /\ (Completed(c) /\ \A j \in 1..Len(c.feedbacks) : marked(j))
                 => /\ c.skipped = Len(c.feedbacks)
                    /\ c.answered = 0

\* C11 witness: a cycle over two reviews, both marked by an earlier cycle,
\* completed with skipped = 2 and answered = 0.
C11_Witness ==
    \E p \in Runners :
        LET c == cyc[p]
        IN /\ Completed(c)
           /\ Len(c.feedbacks) = 2
           /\ \A j \in 1..2 : \E n \in Entries(c, "Exists", j) : c.log[n].exists
           /\ c.skipped = 2
           /\ c.answered = 0
           /\ c.mSkipped = 2

\* C16: a response with status 200 whose envelope says error=true is an
\* error of FetchUnanswered and of AnswerFeedback, and the cycle treats it
\* as it treats a transport error: a failed fetch ends the cycle with no
\* store or answer call, a failed answer counts in failed and saves no mark.
C16_EnvelopeErrorIsError ==
    /\ FetchUnanswered("nil", EnvelopeError) /= "nil"
    /\ AnswerFeedback("nil", EnvelopeError) /= "nil"
    /\ \A p \in Runners :
          LET c == cyc[p]
          IN /\ c.fetchErr = "envelope" =>
                   /\ c.pc = "done" /\ c.outcome = "fetch_failed"
                   /\ c.log = <<>>
             /\ \A list \in FetchLists :
                   OnFetch(c, list, "envelope") = OnFetch(c, list, "transport")
             /\ OnAnswer(c, "envelope") = OnAnswer(c, "transport")
             /\ \A n \in 1..Len(c.log) :
                   (c.log[n].op = "AnswerFeedback" /\ c.log[n].err = "envelope") =>
                      /\ Entries(c, "Save", c.log[n].k) = {}
                      /\ c.failed = FailedInLog(c)
                      /\ c.failed >= 1

\* C16 witness: a completed cycle one of whose answers came back with
\* status 200 and error=true; the review is counted failed and not saved.
C16_Witness ==
    \E p \in Runners :
        LET c == cyc[p]
        IN /\ Completed(c)
           /\ \E n \in 1..Len(c.log) :
                 /\ c.log[n].op = "AnswerFeedback"
                 /\ c.log[n].err = "envelope"
                 /\ <<c.userID, c.log[n].id>> \notin saved
           /\ c.failed = 1

\* C17 (as the specification states it): a review whose answer submission
\* succeeded is counted as answered whether or not its mark could be saved,
\* so a finished cycle's answered equals its successful submissions.
C17_AnsweredDespiteSaveFailure ==
    \A p \in Runners :
        LET c == cyc[p]
        IN c.pc = "done" =>
              c.answered = Cardinality({n \in 1..Len(c.log) :
                              c.log[n].op = "AnswerFeedback" /\ c.log[n].err = "nil"})

\* C18: a cycle whose FetchUnanswered failed has returned at once: it made
\* no Exists, AnswerFeedback or Save call, counted nothing, and when it is
\* the only cycle so far the store is as it was.
C18_FetchFailureAborts ==
    \A p \in Runners :
        LET c == cyc[p]
        IN c.fetchErr /= "nil" =>
              /\ c.pc = "done" /\ c.outcome = "fetch_failed"
              /\ c.log = <<>>
              /\ c.answered = 0 /\ c.skipped = 0 /\ c.failed = 0
              /\ c.mAnswered = 0 /\ c.mSkipped = 0 /\ c.mFailed = 0
              /\ started = 1 => (processed = EmptyTable /\ saved = {})

\* C18 witness: the first cycle's fetch got a server error.
C18_Witness ==
    \E p \in Runners :
        /\ cyc[p].fetchErr = "http"
        /\ cyc[p].pc = "done"
        /\ started = 1

\* C19: a review whose Exists call failed gets no AnswerFeedback and no Save
\* in this cycle and is counted in none of answered, skipped and failed; the
\* cycle has moved on, and a cycle that completes has asked Exists for the
\* next review.
C19_ExistsErrorSkipsReview ==
    \A p \in Runners :
        LET c == cyc[p]
        IN \A n \in 1..Len(c.log) :
              (c.log[n].op = "Exists" /\ c.log[n].err /= "nil") =>
                 LET k == c.log[n].k
                 IN /\ Entries(c, "AnswerFeedback", k) = {}
                    /\ Entries(c, "Save", k) = {}
                    /\ c.i > k
                    /\ c.answered = AnsweredInLog(c)
                    /\ c.skipped = SkippedInLog(c)
                    /\ c.failed = FailedInLog(c)
                    /\ (Completed(c) /\ k < Len(c.feedbacks))
                          => Entries(c, "Exists", k + 1) /= {}

\* C19 witness: Exists failed for the first of two reviews; the second was
\* answered and saved and the cycle completed with answered = 1.
C19_Witness ==
    \E p \in Runners :
        LET c == cyc[p]
        IN /\ Completed(c)
           /\ Len(c.feedbacks) = 2
           /\ \E n \in Entries(c, "Exists", 1) : c.log[n].err = "db"
           /\ Entries(c, "Save", 2) /= {}
           /\ c.answered = 1 /\ c.skipped = 0 /\ c.failed = 0

\* C20 (as the specification states it): every Service/Scheduler pair ever
\* constructed was built from a config with a real token and two templates
\* that are neither empty nor the placeholder, so every cycle that runs,
\* runs with such a config.
C20_BuiltFromCompleteConfig ==
    \A n \in 1..Len(inst) : ~inst[n].cfg.nil /\ AllFieldsSet(inst[n].cfg)

\* C12: Run calls fn once at its start and then once per tick it receives,
\* never two at a time, and it has returned only if the context was
\* cancelled or Shutdown was called.
C12_RunInvokesPerTick ==
    /\ sched.calls = (IF sched.pc = "start" THEN 0 ELSE 1) + sched.received
    /\ sched.running = IF sched.pc = "cycle" THEN 1 ELSE 0
    /\ sched.pc = "exited" => (sched.ctxDone \/ sched.shutdowns > 0)

\* C12 witness: Run made its immediate call and one call for each of two
\* ticks, and then returned.
C12_Witness ==
    /\ sched.calls = 3
    /\ sched.received = 2
    /\ sched.pc = "exited"

\* C13: after one or more calls of Shutdown in sequence the stop signal is
\* set, no call failed, and no call after the first changed anything.
C13_ShutdownIdempotent ==
    sched.shutdowns >= 1 =>
        /\ sched.stopped
        /\ ~sched.panicked
        /\ ~sched.changedLater

\* C13 witness: Shutdown was called twice and Run has returned.
C13_Witness ==
    /\ sched.shutdowns = 2
    /\ sched.stopped
    /\ sched.pc = "exited"

\* C14 (as the specification states it): once Shutdown has been called, Run
\* begins no further invocation of fn.
C14_NoInvocationAfterShutdown == sched.lateCalls = 0

\* C15: a call whose context was cancelled while it waited for a limiter
\* token returns the cancellation error without calling httpClient.Do, and
\* no call that returns the limiter's cancellation error has sent a request.
C15_CancelledWaitSendsNothing ==
    /\ (cli.cancelledInWait /\ cli.pc = "done") => (cli.err = "ctx" /\ ~cli.sent)
    /\ cli.err = "ctx" => ~cli.sent

\* C15 witness: AnswerFeedback found the bucket empty, waited, was cancelled
\* during the wait and returned the cancellation error.
C15_Witness ==
    /\ cli.op = "AnswerFeedback"
    /\ cli.cancelledInWait
    /\ cli.pc = "done"
    /\ cli.err = "ctx"
    /\ ~cli.sent

\* C21 (as the specification states it): once the process-shutdown signal
\* has fired, every in-flight cycle, the scheduler's or the run-now one,
\* observes it: each further step of the cycle either ends it or is a call
\* that fails, so it begins no review after the signal.
C21_ShutdownReachesEveryCycle ==
    [][ctxDone =>
         \A p \in Runners :
            (Running(cyc[p]) /\ cyc'[p] /= cyc[p]) =>
               \/ cyc'[p].pc = "done"
               \/ /\ Len(cyc'[p].log) = Len(cyc[p].log) + 1
                  /\ cyc'[p].log[Len(cyc'[p].log)].err /= "nil"]_vars

\* C22: when shutdownUserService returns in a successful confirm-delete, the
\* tenant has no entry in the service and the scheduler registry and no
\* scheduler of the tenant is left unsignalled; every scheduler that was
\* signalled to stop leaves its Run loop eventually.
C22_DeleteStopsScheduler ==
    /\ [][\A h \in Handlers :
            (handler[h].pc = "shutdown" /\ handler'[h].pc = "reset") =>
               /\ services'[handler[h].chatID] = 0
               /\ schedulers'[handler[h].chatID] = 0
               /\ LiveScheds(handler[h].chatID)' = {}
               /\ schedulers[handler[h].chatID] /= 0 =>
                     inst'[schedulers[handler[h].chatID]].stopped]_vars
    /\ \A n \in 1..MaxInst :
          (n <= Len(inst) /\ inst[n].stopped) ~> (n <= Len(inst) /\ inst[n].pc = "exited")

\* C22 witness: a confirm-delete has shut down the tenant's scheduler and is
\* about to return; the scheduler's Run loop has left through its stop case.
C22_Witness ==
    \E h \in Handlers, n \in 1..MaxInst :
        /\ handler[h].kind = "delete" /\ handler[h].pc = "reset"
        /\ n <= Len(inst)
        /\ inst[n].userID = handler[h].chatID
        /\ inst[n].stopped
        /\ inst[n].pc = "exited"
        /\ services[handler[h].chatID] = 0
        /\ schedulers[handler[h].chatID] = 0
        /\ configDB[handler[h].chatID].nil
        /\ ~botCtxDone

\* C23: a cycle's calls follow the fetched list: every call is made for the
\* review at its index of the list, the first call is for review 1, the
\* index never goes back and never jumps, and within one review the calls
\* are Exists, then AnswerFeedback, then Save, each at most once; the cycle
\* is at one call at a time.
C23_InOrderOneAtATime ==
    \A p \in Runners :
        LET c == cyc[p]
        IN /\ \A n \in 1..Len(c.log) :
                 /\ c.log[n].k \in 1..Len(c.feedbacks)
                 /\ c.log[n].id = c.feedbacks[c.log[n].k].ID
                 /\ c.log[n].k <= c.i
           /\ Len(c.log) > 0 => c.log[1].k = 1
           /\ \A n \in 1..(Len(c.log) - 1) :
                 \/ c.log[n + 1].k = c.log[n].k + 1 /\ c.log[n + 1].op = "Exists"
                 \/ /\ c.log[n + 1].k = c.log[n].k
                    /\ OpRank(c.log[n + 1].op) = OpRank(c.log[n].op) + 1
           /\ Completed(c) =>
                 \A j \in 1..Len(c.feedbacks) : Cardinality(Entries(c, "Exists", j)) = 1

\* C23 witness: a completed cycle over two different reviews, both answered
\* and saved: six calls, the three of review 1 before the three of review 2.
C23_Witness ==
    \E p \in Runners :
        LET c == cyc[p]
        IN /\ Completed(c)
           /\ Len(c.feedbacks) = 2
           /\ c.feedbacks[1].ID /= c.feedbacks[2].ID
           /\ Len(c.log) = 6
           /\ \A n \in 1..3 : c.log[n].k = 1
           /\ \A n \in 4..6 : c.log[n].k = 2

\* C24: every Save call of a cycle comes directly after the successful
\* AnswerFeedback call for the same review of the same cycle; a review whose
\* submission failed, that was found marked, whose Exists failed or that was
\* not reached gets no Save; every stored mark belongs to a (tenant, id)
\* with a successful submission; and no step of a cycle changes or removes
\* a mark that is stored.
C24_MarkOnlyAfterAnswer ==
    /\ [](\A p \in Runners :
            LET c == cyc[p]
            IN /\ \A n \in 1..Len(c.log) :
                     c.log[n].op = "Save" =>
                        /\ n > 1
                        /\ c.log[n - 1].op = "AnswerFeedback"
                        /\ c.log[n - 1].err = "nil"
                        /\ c.log[n - 1].k = c.log[n].k
                        /\ c.log[n - 1].id = c.log[n].id
               /\ \A j \in 1..Len(c.feedbacks) :
                     (\/ \E n \in Entries(c, "AnswerFeedback", j) : c.log[n].err /= "nil"
                      \/ \E n \in Entries(c, "Exists", j) : c.log[n].exists \/ c.log[n].err /= "nil"
                      \/ Entries(c, "AnswerFeedback", j) = {})
                        => Entries(c, "Save", j) = {})
    /\ [](\A key \in Keys :
            processed[key] > 0 =>
               /\ processed[key] = 1
               /\ key \in saved
               /\ okAnswers[key] >= 1)
    /\ [][\A key \in Keys : processed[key] > 0 => processed'[key] = processed[key]]_vars

\* C24 witness: in a completed cycle the submission for the first review
\* failed and left no mark, the second review was answered and marked.
C24_Witness ==
    \E p \in Runners :
        LET c == cyc[p]
        IN /\ Completed(c)
           /\ Len(c.feedbacks) = 2
           /\ c.feedbacks[1].ID /= c.feedbacks[2].ID
           /\ \E n \in Entries(c, "AnswerFeedback", 1) : c.log[n].err /= "nil"
           /\ \E n \in Entries(c, "Save", 2) : c.log[n].err = "nil"
           /\ processed[<<c.userID, c.feedbacks[1].ID>>] = 0
           /\ processed[<<c.userID, c.feedbacks[2].ID>>] = 1

\* C25: no step changes the token or the templates a constructed service
\* captured, and a tenant's registered service stays the registered one
\* whatever is saved for the tenant, until a confirm-delete removes it.
C25_ServiceKeepsSnapshot ==
    [][/\ \A n \in 1..Len(inst) :
             /\ inst'[n].cfg = inst[n].cfg
             /\ inst'[n].userID = inst[n].userID
       /\ \A t \in Tenants :
             services[t] /= 0 =>
                /\ services'[t] \in {services[t], 0}
                /\ services'[t] = 0 =>
                      \E h \in Handlers : /\ handler[h].kind = "delete"
                                          /\ handler[h].chatID = t
                                          /\ handler[h].pc = "shutdown"]_vars

\* C25 witness: a template was saved for a tenant whose service existed; the
\* stored config is complete and differs from what the service captured,
\* and the input handler found the service registered and built nothing.
C25_Witness ==
    \E t \in Tenants, h \in Handlers :
        /\ services[t] /= 0
        /\ handler[h].kind = "input" /\ handler[h].chatID = t
        /\ handler[h].initSaw /\ handler[h].initMade = 0
        /\ AllFieldsSet(configDB[t])
        /\ AllFieldsSet(inst[services[t]].cfg)
        /\ configDB[t] /= inst[services[t]].cfg

\* C26: the ticker's channel never holds more than one tick, so the ticks
\* that fire while fn runs leave one pending tick and the others are
\* dropped; every tick fired is received, pending or dropped; and a receive
\* empties the channel, so after the one catch-up invocation Run needs a
\* fresh tick.
C26_TicksCoalesced ==
    /\ [](/\ sched.tickCh <= 1
          /\ sched.fired = sched.received + sched.tickCh + sched.dropped
          /\ sched.inCall >= 2 => sched.dropped >= 1
          /\ sched.calls <= 1 + sched.fired - sched.dropped)
    /\ [][sched'.received > sched.received =>
             /\ sched'.received = sched.received + 1
             /\ sched'.tickCh = 0]_vars

\* C26 witness: three ticks fired during the immediate invocation; Run made
\* one catch-up invocation and now waits at its select with no tick pending.
C26_Witness ==
    /\ sched.maxInCall = 3
    /\ sched.fired = 3
    /\ sched.dropped = 2
    /\ sched.calls = 2
    /\ sched.pc = "select"
    /\ sched.tickCh = 0
    /\ ~sched.stopped /\ ~sched.ctxDone

\* C27: a Run loop whose scheduler was shut down or whose context was
\* cancelled returns eventually, provided the invocation of fn in progress
\* returns and the select does not pass over a ready case for ever; ticks
\* may keep arriving all the while.
C27_RunReturns ==
    \A n \in 1..MaxInst :
        (n <= Len(inst) /\ (inst[n].stopped \/ botCtxDone))
            ~> (n <= Len(inst) /\ inst[n].pc = "exited")

\* C27 witness: the context was cancelled while a scheduler that was never
\* shut down was inside an invocation; the invocation returned and Run left
\* through the context case.
C27_Witness ==
    \E n \in 1..MaxInst :
        /\ n <= Len(inst)
        /\ botCtxDone
        /\ ~inst[n].stopped
        /\ inst[n].pc = "exited"

\* C28: a cycle calls FetchUnanswered exactly once and AnswerFeedback at most
\* once for each review of the list, whether the call fails or not, and
\* every call hands at most one request to the HTTP client: the requests of
\* a cycle never outnumber its calls.
C28_NoRetries ==
    \A p \in Runners :
        LET c == cyc[p]
            answers == {n \in 1..Len(c.log) : c.log[n].op = "AnswerFeedback"}
        IN /\ c.fetches = IF c.pc \in {"idle", "fetch"} THEN 0 ELSE 1
           /\ \A j \in 1..Len(c.feedbacks) :
                 Cardinality(Entries(c, "AnswerFeedback", j)) <= 1
           /\ c.requests <= c.fetches + Cardinality(answers)
           /\ c.requests = (IF c.fetches = 1 /\ c.fetchErr /= "ctx" THEN 1 ELSE 0)
                           + Cardinality({n \in answers : c.log[n].err /= "ctx"})
           /\ c.fetchErr /= "nil" => c.requests <= 1

\* C28 witness: the submission for the first of two reviews failed with a
\* server error; the cycle completed with one fetch, one submission for each
\* review and three requests in all.
C28_Witness ==
    \E p \in Runners :
        LET c == cyc[p]
        IN /\ Completed(c)
           /\ Len(c.feedbacks) = 2
           /\ \E n \in Entries(c, "AnswerFeedback", 1) : c.log[n].err = "http"
           /\ Cardinality(Entries(c, "AnswerFeedback", 2)) = 1
           /\ c.fetches = 1
           /\ c.requests = 3
           /\ c.failed = 1

\* C29: on a client with a rate limit every request is sent by a call that
\* holds a limiter token, taken at once or reserved and waited for, so the
\* requests sent never outnumber the burst plus the tokens the bucket has
\* gained, whichever way two goroutines' calls interleave.
C29_RequestsWithinTokens ==
    /\ lim.unpaid = 0
    /\ lim.requests <= MaxBurst + lim.refilled
    /\ \A g \in Goroutines : lim.call[g].pc = "send" => lim.call[g].paid
    /\ lim.requests + Cardinality({g \in Goroutines : lim.call[g].pc = "send"})
          <= MaxBurst + lim.refilled

\* C29 witness: the burst is spent; one goroutine waited for a token, got it
\* and is about to send, while the other goroutine's call waits for the
\* next token.
C29_Witness ==
    /\ lim.requests = MaxBurst
    /\ lim.call["g1"].pc = "wait"
    /\ lim.call["g2"].pc = "send"
    /\ lim.call["g2"].waited
    /\ lim.refilled = 1

\* C30: never more than 100 handlers run and never more than 100 slots are
\* taken; the update loop, holding an update, can always go on: when every
\* slot is taken and the context is live it skips the update, which starts
\* no handler and is kept nowhere, and the loop is back at receiving.
C30_PoolBounded ==
    /\ [](/\ pool.running <= pool.slots
          /\ pool.slots <= SemaphoreSize
          /\ pool.running <= 100
          /\ pool.pc = "dispatch" => ENABLED PoolDispatchAny
          /\ pool.pc /= "dispatch" => pool.update = "")
    /\ [][(pool.pc = "dispatch" /\ pool.slots = SemaphoreSize /\ ~pool.done) =>
             \/ pool' = [pool EXCEPT !.dropped = @ + 1, !.pc = "recv", !.update = ""]
             \/ pool'.pc = "dispatch"]_vars

\* C30 witness: with 100 handlers running an update arrived and was
\* skipped; the loop waits for the next update.
C30_Witness ==
    /\ pool.running = 100
    /\ pool.slots = 100
    /\ pool.dropped >= 1
    /\ pool.pc = "recv"
    /\ ~pool.done

\* C31 (as the specification states it): a cycle that has returned, by
\* completing its list or early on cancellation, has given the metrics sink
\* as many answered, skipped and failed increments as its counts.
C31_MetricsMatchCounts ==
    \A p \in Runners :
        LET c == cyc[p]
        IN c.pc = "done" =>
              /\ c.mAnswered = c.answered
              /\ c.mSkipped = c.skipped
              /\ c.mFailed = c.failed

\* C32: service.New with a good or bad text that is empty or blank panics
\* and leaves no Service; a Service that was constructed holds two trimmed,
\* non-empty texts, and every text its selector returns is non-empty.
C32_EmptyTemplateFailsFast ==
    LET blank(s) == s \in {"", "   "}
    IN /\ eng.pc = "panicked" => ((blank(eng.bad) \/ blank(eng.good)) /\ eng.svc = NoService)
       /\ eng.pc = "built" =>
             /\ ~blank(eng.bad) /\ ~blank(eng.good)
             /\ ~eng.svc.templates.panic
             /\ eng.svc.templates.bad \notin {"", "   "}
             /\ eng.svc.templates.good \notin {"", "   "}
             /\ eng.svc.templates.bad = TrimSpace(eng.bad)
             /\ eng.svc.templates.good = TrimSpace(eng.good)
             /\ eng.svc.take \in 1..5000
       /\ (eng.pc = "call" /\ (blank(eng.bad) \/ blank(eng.good))) =>
             New(1, eng.bad, eng.good, eng.take).templates.panic
       /\ eng.out /= "" => eng.out \in {TrimSpace(eng.bad), TrimSpace(eng.good)}
       /\ (eng.pc = "built" /\ eng.out = "") =>
             \A rating \in 1..5 : Select(eng.svc.templates, rating) /= ""

\* C32 witness: New was called with a blank good text and a valid bad text
\* and panicked.
C32_Witness ==
    /\ eng.pc = "panicked"
    /\ eng.good = "   "
    /\ eng.bad = "Sorry!\n"
    /\ eng.svc = NoService

-----------------------------------------------------------------------------
(* C33 (as the specification states it): a run of the cleanup removes a
   user's entries (conversation state, pending configuration, rate limiter,
   subscription cache) only if the user has no active service and has not
   used the bot for 24 hours; a user who was active recently and is in the
   middle of configuration keeps the conversation state across the run. *)
C33_CleanupOnlyInactive ==
    [][chat'.runs /= chat.runs =>
          \A t \in Tenants :
              MapEntries(chat'.user[t]) /= MapEntries(chat.user[t]) =>
                  /\ ~chat.user[t].service
                  /\ chat.user[t].idle >= InactiveAfter]_vars

-----------------------------------------------------------------------------
(* C34 (as the specification states it): Scheduler.Shutdown called from two
   or more goroutines at once is safe in every interleaving: the stop
   channel is closed exactly once and never a second time. *)
C34_ClosedOnce == ~stp.panicked /\ stp.closes <= 1

-----------------------------------------------------------------------------
(* C35 (as the specification states it): every semaphore slot the update
   loop takes is released again, for every kind of update, one carrying
   neither a message nor a callback included; whenever no handler runs all
   100 slots are free. *)
C35_SlotsReturn == pool.running = 0 => pool.slots = 0

-----------------------------------------------------------------------------
(* C36 (as the specification states it): whenever no confirm-delete,
   config-input or run-now handler is in progress for a tenant, a service or
   scheduler is registered for it only if its persisted configuration
   exists and is fully set, and no scheduler is left running for a tenant
   whose configuration was deleted. *)
C36_RegisteredOnlyIfConfigured ==
    \A t \in Tenants :
        {h \in Handlers : handler[h].pc /= "idle" /\ handler[h].chatID = t} = {} =>
            /\ (services[t] /= 0 \/ schedulers[t] /= 0) =>
                   (~configDB[t].nil /\ AllFieldsSet(configDB[t]))
            /\ configDB[t].nil => LiveScheds(t) = {}

-----------------------------------------------------------------------------
(* C37 (as the specification states it): after a successful confirm-delete
   the store holds no mark of the tenant until a newly constructed service
   answers a review: with the configuration row gone, no service registered
   and no handler of the tenant in progress (and the bot not shut
   down), the tenant has no mark; a cycle of the old service that was in
   flight writes none. *)
C37_NoMarkAfterDelete ==
    \A t \in Tenants :
        ( /\ configDB[t].nil
          /\ services[t] = 0
          /\ ~botStopped
          /\ {h \in Handlers : handler[h].pc /= "idle" /\ handler[h].chatID = t} = {} ) =>
            \A id \in Ids : ~SelectOne(processed, sqliteKey(t, id))

-----------------------------------------------------------------------------
(* C38: whenever svcMu is not held, which is between any two steps of
   initializeServiceForUser, shutdownUserService and Bot.Shutdown, the
   tenants with a registered service are the tenants with a registered
   scheduler. *)
C38_RegistriesAgree ==
    {t \in Tenants : services[t] /= 0} = {t \in Tenants : schedulers[t] /= 0}

\* C38 witness: a second service was registered for the tenant after a
\* confirm-delete removed the first, and Bot.Shutdown then cleared both maps.
C38_Witness ==
    /\ Len(inst) = 2
    /\ inst[1].userID = 1 /\ inst[2].userID = 1
    /\ inst[1].stopped /\ inst[2].stopped
    /\ botStopped
    /\ services[1] = 0 /\ schedulers[1] = 0
    /\ \E h \in Handlers : handler[h].kind = "delete"

-----------------------------------------------------------------------------
(* C39: the four mutexes are taken in one order (mu, svcMu, rateLimitMu,
   subscriptionCacheMu): a goroutine holding one of them takes only a later
   one; and performCleanup, initializeServiceForUser, shutdownUserService,
   Bot.Shutdown, updateActiveUsersMetric and the state helpers never block
   each other for good: while any of them is inside a function, one of
   them can take its next step. *)
C39_LockOrder ==
    /\ \A n \in LockGoroutines :
          LET held == locks.g[n].held
          IN \A i, j \in 1..Len(held) : i < j => LockRank(held[i]) < LockRank(held[j])
    /\ (\E n \in LockGoroutines : Busy(n)) => (\E n \in LockGoroutines : CanStep(n))
    /\ \A m \in Mutexes :
          /\ locks.writer[m] /= 0 => locks.readers[m] = {}
          /\ \A n \in LockGoroutines :
                (locks.writer[m] = n \/ n \in locks.readers[m]) <=>
                    (\E i \in 1..Len(locks.g[n].held) : locks.g[n].held[i] = m)

\* C39 witness: performCleanup holds mu and subscriptionCacheMu while one
\* goroutine is blocked in setUserState and another in
\* checkChannelSubscription.
C39_Witness ==
    \E n, k, j \in LockGoroutines :
        /\ locks.g[n].held = <<"mu", "subscriptionCacheMu">>
        /\ locks.g[k].waiting /\ NextOp(k) = Op("Lock", "mu")
        /\ locks.g[j].waiting /\ NextOp(j) = Op("RLock", "subscriptionCacheMu")
        /\ ~CanStep(k) /\ ~CanStep(j)

-----------------------------------------------------------------------------
(* C40: when a cycle has gone through its whole list, answered, skipped and
   failed are not negative and their sum is the number of fetched reviews
   less the reviews at which a Dedup Store call (Exists or Save) failed: at
   most the number fetched, and equal to it when no store call failed. *)
C40_CountsWithinFetched ==
    \A p \in Runners :
        LET c == cyc[p]
            sum == c.answered + c.skipped + c.failed
            storeFailures == {n \in Failures(c) : c.log[n].op \in {"Exists", "Save"}}
        IN Completed(c) =>
              /\ c.answered >= 0 /\ c.skipped >= 0 /\ c.failed >= 0
              /\ sum <= Len(c.feedbacks)
              /\ sum + Cardinality(storeFailures) = Len(c.feedbacks)
              /\ storeFailures = {} => sum = Len(c.feedbacks)

\* C40 witness: a completed cycle over two reviews: the first was found
\* marked and skipped, the second was answered but its Save failed, so the
\* three counts add up to one.
C40_Witness ==
    \E p \in Runners :
        LET c == cyc[p]
        IN /\ Completed(c)
           /\ Len(c.feedbacks) = 2
           /\ c.skipped = 1 /\ c.answered = 0 /\ c.failed = 0
           /\ \E n \in Entries(c, "Exists", 1) : c.log[n].exists
           /\ \E n \in Entries(c, "Save", 2) : c.log[n].err /= "nil"

====
